---- MODULE Spec2Model ----
EXTENDS Integers, Sequences, FiniteSets, TLC

(***************************************************************************)
(* drizzle-graphql-suite, package schema: the permission view builder      *)
(* (withPermissions and its cache), the hook pipeline (executeWithHooks),  *)
(* row security (withRowSecurity) and hook merging (mergeHooks).           *)
(***************************************************************************)

VARIABLES
    baseConfig,   \* SchemaBuilder.config of the base builder
    heap,         \* the GraphQLSchema objects withPermissions has constructed, in order
    cache,        \* build(): const cache = new Map<string, GraphQLSchema>() (id -> heap index)
    lastCall,     \* the last withPermissions / clearPermissionCache call and what it returned
    firstRet,     \* history: per policy id, the instance returned by its first withPermissions
                  \* call since eviction was last requested for it
    evicted,      \* history: ids for which eviction was requested since their last withPermissions call
    hooks,        \* SchemaBuilder.hooks (config.hooks ?? {})
    rq,           \* the request a resolver is serving: executeWithHooks and the functions it calls
    mergeCall,    \* a call of mergeHooks: its arguments and what it returned
    inflight,     \* HTTP requests that each call withPermissions once: policy and schema observed
    gen,          \* a SchemaBuilder constructed on a Drizzle schema and what buildEntities gave
    compiled,     \* a filter object and what extractColumnFilters / extractAllFilters made of it
    exec          \* one run of a resolver's execute closure: what its storage calls threw, what it gave

permVars == <<baseConfig, heap, cache, lastCall, firstRet, evicted>>

vars == <<baseConfig, heap, cache, lastCall, firstRet, evicted, hooks, rq, mergeCall,
          inflight, gen, compiled, exec>>

\* ------------------------------------------------------------------------
\* Bounds of the model
\* ------------------------------------------------------------------------

\* how many GraphQLSchema objects one run may construct
MaxSchemas == 4

\* ------------------------------------------------------------------------
\* The Drizzle schema handed to the builder (db._.fullSchema)
\* ------------------------------------------------------------------------

Tables == {"users", "posts", "comments", "audit"}

Relations ==
    { [owner |-> "users",    name |-> "posts",    target |-> "posts",    one |-> FALSE],
      [owner |-> "posts",    name |-> "author",   target |-> "users",    one |-> TRUE],
      [owner |-> "posts",    name |-> "comments", target |-> "comments", one |-> FALSE],
      [owner |-> "comments", name |-> "post",     target |-> "posts",    one |-> TRUE] }

\* db._.schema of the permissions tests
PermissionsDb == [tables |-> Tables, relations |-> Relations]

\* selfRefSchema of the schema-builder tests: node with two self-relations, and tag
SelfRefDb ==
    [tables |-> {"node", "tag"},
     relations |->
        { [owner |-> "node", name |-> "parentNode", target |-> "node", one |-> TRUE],
          [owner |-> "node", name |-> "childNodes", target |-> "node", one |-> FALSE],
          [owner |-> "node", name |-> "tags",       target |-> "tag",  one |-> FALSE],
          [owner |-> "tag",  name |-> "node",       target |-> "node", one |-> TRUE] }]

\* testSchema of the schema-builder tests: parent and child, a two-table cycle
ParentChildDb ==
    [tables |-> {"parent", "child"},
     relations |->
        { [owner |-> "parent", name |-> "children", target |-> "child",  one |-> FALSE],
          [owner |-> "child",  name |-> "parent",   target |-> "parent", one |-> TRUE] }]

\* a schema without a cycle: five tables, each with a one relation to the next
ChainDb ==
    [tables |-> {"a", "b", "c", "d", "e"},
     relations |->
        { [owner |-> "a", name |-> "b", target |-> "b", one |-> TRUE],
          [owner |-> "b", name |-> "c", target |-> "c", one |-> TRUE],
          [owner |-> "c", name |-> "d", target |-> "d", one |-> TRUE],
          [owner |-> "d", name |-> "e", target |-> "e", one |-> TRUE] }]

\* a schema in which table x is reached from table a over the relation bRelationC and
\* over the relations b and then c
TwoPathsDb ==
    [tables |-> {"a", "x", "y"},
     relations |->
        { [owner |-> "a", name |-> "b",          target |-> "y", one |-> TRUE],
          [owner |-> "y", name |-> "c",          target |-> "x", one |-> TRUE],
          [owner |-> "a", name |-> "bRelationC", target |-> "x", one |-> TRUE] }]

\* an optional boolean: "U" is undefined, "T" true, "F" false
Tri == {"U", "T", "F"}

B2T(b) == IF b THEN "T" ELSE "F"

QueryOps == {"list", "single", "count"}

MutationOps == {"insert", "insertSingle", "update", "delete"}

\* ------------------------------------------------------------------------
\* BuildSchemaConfig
\* ------------------------------------------------------------------------

NoOps == [queries |-> "U", mutations |-> "U"]

NoNumber == [given |-> FALSE, n |-> 0]

NoPrune == [kind |-> "none", only |-> {}]

DefaultLimitRelationDepth == 3

DefaultLimitSelfRelationDepth == 1

limitRelationDepth_notNumber(cfg) == [isNumber |-> FALSE, n |-> 0]

\* this.limitRelationDepth = config?.limitRelationDepth ?? 3
limitRelationDepth(cfg) ==
    IF cfg.limitRelationDepth.given
    THEN [isNumber |-> TRUE, n |-> cfg.limitRelationDepth.n]
    ELSE [isNumber |-> TRUE, n |-> DefaultLimitRelationDepth]

limitSelfRelationDepth_plusOne(cfg) ==
    IF cfg.limitSelfRelationDepth.given
    THEN cfg.limitSelfRelationDepth.n + 1
    ELSE DefaultLimitSelfRelationDepth + 1

\* this.limitSelfRelationDepth = config?.limitSelfRelationDepth ?? 1
limitSelfRelationDepth(cfg) ==
    IF cfg.limitSelfRelationDepth.given
    THEN cfg.limitSelfRelationDepth.n
    ELSE DefaultLimitSelfRelationDepth

pruneRule_none(cfg, tableName, relationName) == NoPrune

\* this.pruneRelations.get(`${tableName}.${relationName}`)
pruneRule(cfg, tableName, relationName) ==
    IF <<tableName, relationName>> \in DOMAIN cfg.pruneRelations
    THEN cfg.pruneRelations[<<tableName, relationName>>]
    ELSE NoPrune

\* the constructor: tables left after `delete this.tables[tableName]` for each excluded one
builderTables(cfg) == cfg.db.tables \ cfg.exclude

\* relations whose owning table or target table was excluded are dropped
buildRelationMap_keepTargets(cfg) ==
    {r \in cfg.db.relations : r.owner \in builderTables(cfg)}

buildRelationMap(cfg) ==
    {r \in cfg.db.relations : r.owner \in builderTables(cfg) /\ r.target \in builderTables(cfg)}

\* ------------------------------------------------------------------------
\* Select-graph generation
\* ------------------------------------------------------------------------

nextSelfDepth_carry(isSelfRelation, currentSelfDepth) ==
    IF isSelfRelation THEN currentSelfDepth + 1 ELSE currentSelfDepth

\* isSelfRelation ? currentSelfDepth + 1 : 0
nextSelfDepth(isSelfRelation, currentSelfDepth) ==
    IF isSelfRelation THEN currentSelfDepth + 1 ELSE 0

onlyRels_inherit(rule, allowedRelations) ==
    IF rule.kind = "only" THEN [given |-> TRUE, names |-> rule.only] ELSE allowedRelations

\* onlyRels = pruneRule && typeof pruneRule === 'object' ? pruneRule.only : undefined;
\* the second parameter is the caller's own allow-list, which is not passed on
onlyRels(rule, allowedRelations) == [given |-> rule.kind = "only", names |-> rule.only]

effectiveDepth_unclamped(isCrossCycle, lrd, newDepth) == newDepth

\* isCrossCycle && typeof this.limitRelationDepth === 'number'
\*     ? Math.max(newDepth, this.limitRelationDepth - 1) : newDepth
effectiveDepth(isCrossCycle, lrd, newDepth) ==
    IF isCrossCycle /\ lrd.isNumber
    THEN (IF newDepth >= lrd.n - 1 THEN newDepth ELSE lrd.n - 1)
    ELSE newDepth

\* a string as the words it is made of, each with its first letter in lower or upper case
word(w, upper) == [s |-> w, upper |-> upper]

\* the words of a table or relation name of the schemas above
wordsOf(name) ==
    IF name = "bRelationC"
    THEN <<word("b", FALSE), word("relation", TRUE), word("c", TRUE)>>
    ELSE <<word(name, FALSE)>>

\* capitalize(input): the first letter in upper case
capitalize(ws) == [ws EXCEPT ![1].upper = TRUE]

\* relTypeName = `${typeName}${capitalize(relationName)}Relation`, from the root's
\* stylizedName = capitalize(tableName), along a path of relation names
RECURSIVE relTypeName(_, _)
relTypeName(path, n) ==
    IF n = 1 THEN capitalize(wordsOf(path[1]))
    ELSE relTypeName(path, n - 1) \o capitalize(wordsOf(path[n])) \o <<word("relation", TRUE)>>

\* the name the GraphQLObjectType of a select type is constructed with
objectTypeName(path) ==
    IF Len(path) = 1
    THEN relTypeName(path, 1) \o <<word("select", TRUE), word("item", TRUE)>>
    ELSE relTypeName(path, Len(path))

RECURSIVE generateSelectFields(_, _, _, _, _, _, _, _)
generateSelectFields(cfg, tableName, typeName, currentDepth, usedTables, currentSelfDepth, forceLeaf, allowedRelations) ==
    LET relationEntries == {r \in buildRelationMap(cfg) : r.owner = tableName}
        lrd == limitRelationDepth(cfg)
        stop == \/ forceLeaf
                \/ (~lrd.isNumber /\ tableName \in usedTables)
                \/ (lrd.isNumber /\ currentDepth >= lrd.n)
                \/ relationEntries = {}
        newDepth == currentDepth + 1
        isSelf(r) == r.target = tableName
        kept == {r \in relationEntries :
                    /\ (allowedRelations.given => r.name \in allowedRelations.names)
                    /\ pruneRule(cfg, tableName, r.name).kind # "omit"
                    /\ ~(isSelf(r) /\ currentSelfDepth + 1 >= limitSelfRelationDepth(cfg))}
        isCrossCycle(r) == ~isSelf(r) /\ r.target \in usedTables
        rule(r) == pruneRule(cfg, tableName, r.name)
        relData(r) ==
            generateSelectFields(cfg, r.target, Append(typeName, r.name),
                                 effectiveDepth(isCrossCycle(r), lrd, newDepth),
                                 usedTables \cup {tableName},
                                 nextSelfDepth(isSelf(r), currentSelfDepth),
                                 rule(r).kind = "leaf",
                                 onlyRels(rule(r), allowedRelations))
        relType(r) == [kind |-> "select", name |-> Append(typeName, r.name),
                       table |-> r.target, fields |-> relData(r).relationFields]
    IN  IF stop
        THEN [relationFields |-> {}, nodes |-> {}]
        ELSE [relationFields |-> {[name |-> r.name, target |-> r.target] : r \in kept},
              nodes |-> UNION {relData(r).nodes \cup {relType(r)} : r \in kept}]

NoAllowList == [given |-> FALSE, names |-> {}]

\* buildRelationFilterFields: every relation of the table gets a filter field
buildRelationFilterFields(cfg, tableName) ==
    {[name |-> r.name, target |-> r.target] : r \in {x \in buildRelationMap(cfg) : x.owner = tableName}}

\* the tables whose filter type is created when the filter types of `roots` are
RECURSIVE filterClosure(_, _, _)
filterClosure(cfg, roots, fuel) ==
    IF fuel = 0 THEN roots
    ELSE filterClosure(cfg,
            roots \cup {r.target : r \in {x \in buildRelationMap(cfg) : x.owner \in roots}},
            fuel - 1)

\* ------------------------------------------------------------------------
\* buildEntities
\* ------------------------------------------------------------------------

generateQueries(cfg, t) == cfg.tcfg[t].queries # "F"

generateMutations(cfg, t) == cfg.tcfg[t].mutations # "F" /\ cfg.mutations # "F"

buildEntities(cfg) ==
    LET qTables == {t \in builderTables(cfg) : generateQueries(cfg, t)}
        mTables == {t \in builderTables(cfg) : generateMutations(cfg, t)}
        sel(t)  == generateSelectFields(cfg, t, <<t>>, 0, {}, 0, FALSE, NoAllowList)
        selectItem(t) == [kind |-> "select", name |-> <<t>>, table |-> t,
                          fields |-> sel(t).relationFields]
        item(t) == [kind |-> "item", name |-> <<t>>, table |-> t, fields |-> {}]
        fTables == filterClosure(cfg, qTables \cup mTables, Cardinality(cfg.db.tables))
        filters(t) == [kind |-> "filter", name |-> <<t>>, table |-> t,
                       fields |-> buildRelationFilterFields(cfg, t)]
    IN  [queries   |-> {[table |-> t, op |-> o] : t \in qTables, o \in QueryOps},
         mutations |-> {[table |-> t, op |-> o] : t \in mTables, o \in MutationOps},
         types     |-> UNION {sel(t).nodes \cup {selectItem(t)} : t \in qTables}
                       \cup {item(t) : t \in mTables}
                       \cup {filters(t) : t \in fTables}]

\* ------------------------------------------------------------------------
\* permissions.ts
\* ------------------------------------------------------------------------

NoFilter == [marked |-> FALSE, insert |-> TRUE, update |-> TRUE, delete |-> TRUE]

resolveTableAccess_allowUnlisted(permissions, tableName) ==
    LET override == permissions.tables[tableName]
    IN  IF override.kind = "U" THEN [override EXCEPT !.kind = "T"] ELSE override

resolveTableAccess(permissions, tableName) ==
    LET override == permissions.tables[tableName]
    IN  IF permissions.mode = "permissive"
        THEN (IF override.kind = "U" THEN [override EXCEPT !.kind = "T"] ELSE override)
        ELSE (IF override.kind = "U" THEN [override EXCEPT !.kind = "F"] ELSE override)

\* access.flag ?? defaultAllow
orDefault_alwaysAllow(flag, defaultAllow) == flag # "F"

orDefault(flag, defaultAllow) == IF flag = "U" THEN defaultAllow ELSE flag = "T"

\* one iteration of the loop over allTableNames
mergeTable(base, permissions, tableName) ==
    LET access        == resolveTableAccess(permissions, tableName)
        defaultAllow  == permissions.mode = "permissive"
        queryAllowed  == orDefault(access.query, defaultAllow)
        insertAllowed == orDefault(access.insert, defaultAllow)
        updateAllowed == orDefault(access.update, defaultAllow)
        deleteAllowed == orDefault(access.delete, defaultAllow)
        anyMutation   == insertAllowed \/ updateAllowed \/ deleteAllowed
        keep          == [excluded |-> FALSE, ops |-> base.tcfg[tableName], filter |-> NoFilter]
        drop          == [excluded |-> TRUE, ops |-> base.tcfg[tableName], filter |-> NoFilter]
    IN  IF tableName \in base.exclude THEN drop
        ELSE IF access.kind = "F" THEN drop
        ELSE IF access.kind = "T" THEN keep
        ELSE IF ~queryAllowed /\ ~insertAllowed /\ ~updateAllowed /\ ~deleteAllowed THEN drop
        ELSE [excluded |-> FALSE,
              ops      |-> [queries |-> B2T(queryAllowed), mutations |-> B2T(anyMutation)],
              filter   |-> IF anyMutation /\ ~(insertAllowed /\ updateAllowed /\ deleteAllowed)
                           THEN [marked |-> TRUE, insert |-> insertAllowed,
                                 update |-> updateAllowed, delete |-> deleteAllowed]
                           ELSE NoFilter]

mergePermissionsIntoConfig(base, permissions) ==
    [config |-> [base EXCEPT
                    !.exclude = {t \in Tables : mergeTable(base, permissions, t).excluded},
                    !.tcfg    = [t \in Tables |-> mergeTable(base, permissions, t).ops]],
     mutationFilter |-> [t \in Tables |-> mergeTable(base, permissions, t).filter]]

postFilterMutations_keepAll(mutations, mutationFilter) == mutations

postFilterMutations(mutations, mutationFilter) ==
    {m \in mutations :
        LET flags == mutationFilter[m.table]
        IN  ~flags.marked
            \/ /\ (m.op \in {"insert", "insertSingle"} => flags.insert)
               /\ (m.op = "update" => flags.update)
               /\ (m.op = "delete" => flags.delete)}

\* ------------------------------------------------------------------------
\* build(): the withPermissions closure
\* ------------------------------------------------------------------------

EmptyEntry == [table |-> "", op |-> "_empty"]

\* the schema withPermissions constructs on a cache miss
deriveSchema(base, permissions) ==
    LET merged       == mergePermissionsIntoConfig(base, permissions)
        hasAnyTable  == \E t \in Tables : t \notin merged.config.exclude
        permEntities == buildEntities(merged.config)
        mutations    == postFilterMutations(permEntities.mutations, merged.mutationFilter)
    IN  IF ~hasAnyTable
        THEN [queries |-> {EmptyEntry}, mutations |-> {}, hasMutationType |-> FALSE,
              types |-> {}]
        ELSE [queries |-> IF permEntities.queries # {} THEN permEntities.queries
                          ELSE {EmptyEntry},
              mutations |-> IF merged.config.mutations # "F" /\ mutations # {}
                            THEN mutations ELSE {},
              hasMutationType |-> merged.config.mutations # "F" /\ mutations # {},
              types |-> permEntities.types]

cacheHit_never(c, id) == FALSE

\* const cached = cache.get(permissions.id); if (cached) return cached
cacheHit(c, id) == id \in DOMAIN c

\* the names of the object build() returns
buildResultKeys == {"schema", "entities", "withPermissions"}

NoCall == [op |-> "none", id |-> "", ret |-> 0, built |-> FALSE, afterEvict |-> FALSE,
           threw |-> FALSE]

cacheSet_skip(c, id, ref) == c

\* cache.set(permissions.id, schema)
cacheSet(c, id, ref) == [i \in DOMAIN c \cup {id} |-> IF i = id THEN ref ELSE c[i]]

\* the body of withPermissions: it has no await, so a call runs from start to end
\* before any other call starts
callWithPermissions(p) ==
    /\ IF cacheHit(cache, p.id)
       THEN /\ UNCHANGED <<heap, cache>>
            /\ lastCall' = [op |-> "withPermissions", id |-> p.id, ret |-> cache[p.id],
                            built |-> FALSE, afterEvict |-> p.id \in evicted, threw |-> FALSE]
            /\ firstRet' = IF p.id \in DOMAIN firstRet THEN firstRet
                           ELSE firstRet @@ (p.id :> cache[p.id])
       ELSE /\ Len(heap) < MaxSchemas
            /\ heap' = Append(heap, [schema |-> deriveSchema(baseConfig, p), from |-> p])
            /\ cache' = cacheSet(cache, p.id, Len(heap) + 1)
            /\ lastCall' = [op |-> "withPermissions", id |-> p.id, ret |-> Len(heap) + 1,
                            built |-> TRUE, afterEvict |-> p.id \in evicted, threw |-> FALSE]
            /\ firstRet' = IF p.id \in DOMAIN firstRet THEN firstRet
                           ELSE firstRet @@ (p.id :> Len(heap) + 1)
    /\ evicted' = evicted \ {p.id}
    /\ UNCHANGED baseConfig

WithPermissions(p) ==
    /\ callWithPermissions(p)
    /\ UNCHANGED <<hooks, rq, mergeCall, inflight, gen, compiled, exec>>

\* build() returns { schema, entities, withPermissions }: the object has no
\* clearPermissionCache member, so calling it throws a TypeError and the cache keeps
\* every entry.  id = "" stands for a call without an argument.
ClearPermissionCache(id) ==
    /\ "clearPermissionCache" \notin buildResultKeys
    /\ lastCall' = [op |-> "clearPermissionCache", id |-> id, ret |-> 0, built |-> FALSE,
                    afterEvict |-> FALSE, threw |-> TRUE]
    /\ evicted' = IF id = "" THEN evicted \cup DOMAIN cache
                   ELSE evicted \cup ({id} \cap DOMAIN cache)
    /\ firstRet' = IF id = "" THEN <<>>
                    ELSE [i \in DOMAIN firstRet \ {id} |-> firstRet[i]]
    /\ UNCHANGED <<baseConfig, heap, cache, hooks, rq, mergeCall, inflight, gen, compiled, exec>>

\* ------------------------------------------------------------------------
\* Inputs
\* ------------------------------------------------------------------------

PolicyIds == {"a", "b"}

Modes == {"permissive", "restricted"}

NoAccess == [kind |-> "U", query |-> "U", insert |-> "U", update |-> "U", delete |-> "U"]

\* undefined, true, false
SimpleAccess == {[NoAccess EXCEPT !.kind = k] : k \in {"U", "T", "F"}}

\* a TableAccess object { query?, insert?, update?, delete? }
GranularAccess == [kind : {"G"}, query : Tri, insert : Tri, update : Tri, delete : Tri]

readOnly == [kind |-> "G", query |-> "T", insert |-> "F", update |-> "F", delete |-> "F"]

Policy(id, mode, posts, users, audit) ==
    [id |-> id, mode |-> mode,
     tables |-> [t \in Tables |-> CASE t = "posts" -> posts
                                   [] t = "users" -> users
                                   [] t = "audit" -> audit
                                   [] OTHER -> NoAccess]]

\* every policy over posts (any access value) and users (nothing or false)
DerivePolicies ==
    {Policy("a", m, ap, au, NoAccess) : m \in Modes, ap \in SimpleAccess \cup GranularAccess,
                                       au \in {NoAccess, [NoAccess EXCEPT !.kind = "F"]}}

Allow == [NoAccess EXCEPT !.kind = "T"]

Deny == [NoAccess EXCEPT !.kind = "F"]

\* a few policies under each id, some sharing an id with different rules
CachePolicies ==
    {Policy(i, "restricted", Allow, NoAccess, NoAccess) : i \in PolicyIds}
    \cup {Policy(i, "restricted", NoAccess, NoAccess, NoAccess) : i \in PolicyIds}
    \cup {Policy(i, "permissive", readOnly, NoAccess, Deny) : i \in PolicyIds}
    \cup {Policy(i, "permissive", NoAccess, Deny, NoAccess) : i \in PolicyIds}

Config(m, e, postsOps) ==
    [db |-> PermissionsDb, mutations |-> m, exclude |-> e,
     tcfg |-> [t \in Tables |-> IF t = "posts" THEN postsOps ELSE NoOps],
     limitRelationDepth |-> NoNumber, limitSelfRelationDepth |-> NoNumber,
     pruneRelations |-> <<>>]

BaseConfigs ==
    {Config(m, e, [queries |-> q, mutations |-> mu]) :
        m \in {"U", "F"}, e \in {{}, {"posts"}, {"users"}}, q \in {"U", "F"}, mu \in {"U", "F"}}

DefaultConfig == Config("U", {}, NoOps)

\* ------------------------------------------------------------------------
\* Hooks: OperationType, OperationHooks, HooksConfig
\* ------------------------------------------------------------------------

OperationTypes ==
    {"query", "querySingle", "count", "insert", "insertSingle", "update", "delete"}

\* the tables requests are sent to
HookTables == {"posts", "comments"}

HookKeys == HookTables \X OperationTypes

\* hook functions by identity: none, a function written by a consumer, or the before
\* closure withRowSecurity makes for a rule
NoFn == [k |-> "none", id |-> ""]

UserFn(id) == [k |-> "user", id |-> id]

RuleFn(ruleId) == [k |-> "rls", id |-> ruleId]

\* OperationHooks: { before?, after? } (shape "ba", a chain of functions each) or
\* { resolve } (shape "resolve"); shape "none" is an operation without an entry
NoHooks == [shape |-> "none", before |-> <<>>, after |-> <<>>, resolve |-> NoFn]

EmptyHooks == [x \in HookKeys |-> NoHooks]

\* ------------------------------------------------------------------------
\* Resolver arguments and where objects
\* ------------------------------------------------------------------------

Keys == {"authorId", "title"}

Values == {"u1", "u2"}

\* a key the object does not have
Absent == "-"

Wheres == [Keys -> Values \cup {Absent}]

NoWhere == [k \in Keys |-> Absent]

\* args: the where object (if any) and a mark that stands for every other field
NoArgs == [hasWhere |-> FALSE, where |-> NoWhere, mark |-> ""]

RequestArgs ==
    {[hasWhere |-> FALSE, where |-> NoWhere, mark |-> "caller"]}
    \cup {[hasWhere |-> TRUE, where |-> w, mark |-> "caller"] : w \in Wheres}

\* context.user
Contexts == Values

\* a relation field selected in a query, with the arguments given to the field
Selected(name, a) == [name |-> name, args |-> a]

\* the selections of requests: columns only, or a relation field (comments.post with
\* and without a where argument of its own, posts.comments) and a field nested in it
Selections(t, op) ==
    IF op \notin {"query", "querySingle"} THEN {<<>>}
    ELSE IF t = "comments"
    THEN {<<>>,
          <<Selected("post", NoArgs)>>,
          <<Selected("post", [hasWhere |-> TRUE, mark |-> "caller",
                              where |-> [k \in Keys |-> IF k = "title" THEN "u2" ELSE Absent]])>>,
          <<Selected("post", NoArgs), Selected("comments", NoArgs)>>}
    ELSE {<<>>, <<Selected("comments", NoArgs)>>}

RuleIds == {"own", "ownTitled"}

\* the row-security rules: (context) => ({ authorId: context.user }) and
\* (context) => ({ authorId: context.user, title: 'u1' })
rule(ruleId, context) ==
    IF ruleId = "own" THEN [k \in Keys |-> IF k = "authorId" THEN context ELSE Absent]
    ELSE [k \in Keys |-> IF k = "authorId" THEN context ELSE "u1"]

\* { ...a, ...b }
spread(a, b) == [k \in Keys |-> IF b[k] # Absent THEN b[k] ELSE a[k]]

\* BeforeHookResult | undefined
Undefined == [defined |-> FALSE, hasArgs |-> FALSE, args |-> NoArgs,
              hasData |-> FALSE, data |-> ""]

BeforeResult(hasArgs, args, hasData, data) ==
    [defined |-> TRUE, hasArgs |-> hasArgs, args |-> IF hasArgs THEN args ELSE NoArgs,
     hasData |-> hasData, data |-> IF hasData THEN data ELSE ""]

rlsBefore_callerWins(ruleId, ctxArgs, context) ==
    LET whereClause   == rule(ruleId, context)
        mergedWhere   == IF ctxArgs.hasWhere THEN spread(whereClause, ctxArgs.where)
                         ELSE whereClause
    IN  BeforeResult(TRUE, [ctxArgs EXCEPT !.hasWhere = TRUE, !.where = mergedWhere],
                     FALSE, "")

\* withRowSecurity: the before closure of a rule
rlsBefore(ruleId, ctxArgs, context) ==
    LET whereClause   == rule(ruleId, context)
        mergedWhere   == IF ctxArgs.hasWhere THEN spread(ctxArgs.where, whereClause)
                         ELSE whereClause
    IN  BeforeResult(TRUE, [ctxArgs EXCEPT !.hasWhere = TRUE, !.where = mergedWhere],
                     FALSE, "")

\* the operations withRowSecurity installs the before closure on
RlsOps == {"query", "querySingle", "count", "update", "delete"}

\* withRowSecurity(rules), rules a function from some tables to rule ids
withRowSecurity(rules) ==
    [x \in HookKeys |->
        IF x[1] \in DOMAIN rules /\ x[2] \in RlsOps
        THEN [shape |-> "ba", before |-> <<RuleFn(rules[x[1]])>>, after |-> <<>>,
              resolve |-> NoFn]
        ELSE NoHooks]

mergeOp_keepResolve(existingOp, incoming) ==
    IF incoming.shape = "none" THEN existingOp
    ELSE IF existingOp.shape = "none" THEN incoming
    ELSE IF existingOp.shape = "resolve" THEN existingOp
    ELSE IF incoming.shape = "resolve" THEN incoming
    ELSE [shape |-> "ba",
          before |-> IF incoming.before # <<>> /\ existingOp.before # <<>>
                     THEN existingOp.before \o incoming.before
                     ELSE IF incoming.before # <<>> THEN incoming.before ELSE existingOp.before,
          after |-> IF incoming.after # <<>> /\ existingOp.after # <<>>
                    THEN existingOp.after \o incoming.after
                    ELSE IF incoming.after # <<>> THEN incoming.after ELSE existingOp.after,
          resolve |-> NoFn]

\* mergeHooks: the body of the loop over the operations of a table, incoming being
\* the entry of the configuration the loop is at.  A chained
\* before (after) calls first, then second: the chain is the sequence of the two.
mergeOp(existingOp, incoming) ==
    IF incoming.shape = "none" THEN existingOp
    ELSE IF existingOp.shape = "none" THEN incoming
    ELSE IF incoming.shape = "resolve" THEN incoming
    ELSE IF existingOp.shape = "resolve" THEN incoming
    ELSE [shape |-> "ba",
          before |-> IF incoming.before # <<>> /\ existingOp.before # <<>>
                     THEN existingOp.before \o incoming.before
                     ELSE IF incoming.before # <<>> THEN incoming.before ELSE existingOp.before,
          after |-> IF incoming.after # <<>> /\ existingOp.after # <<>>
                    THEN existingOp.after \o incoming.after
                    ELSE IF incoming.after # <<>> THEN incoming.after ELSE existingOp.after,
          resolve |-> NoFn]

RECURSIVE mergeInto(_, _)
mergeInto(result, configs) ==
    IF configs = <<>> THEN result
    ELSE mergeInto([x \in HookKeys |-> mergeOp(result[x], Head(configs)[x])], Tail(configs))

\* mergeHooks(...configs)
mergeHooks(configs) == mergeInto(EmptyHooks, configs)

\* merged.before: nextCtx = firstResult?.args ? { ...ctx, args: firstResult.args } : ctx
nextCtxArgs_original(ctxArgs, firstResult) == ctxArgs

nextCtxArgs(ctxArgs, firstResult) ==
    IF firstResult.defined /\ firstResult.hasArgs THEN firstResult.args ELSE ctxArgs

\* merged.before: { args: secondResult?.args ?? firstResult?.args ?? undefined,
\*                  data: secondResult?.data ?? firstResult?.data ?? undefined }
chainResult(firstResult, secondResult) ==
    BeforeResult(secondResult.hasArgs \/ firstResult.hasArgs,
                 IF secondResult.hasArgs THEN secondResult.args ELSE firstResult.args,
                 secondResult.hasData \/ firstResult.hasData,
                 IF secondResult.hasData THEN secondResult.data ELSE firstResult.data)

\* the value a before chain has produced once its first n functions have returned
RECURSIVE beforeValue(_, _)
beforeValue(outs, n) ==
    IF n = 1 THEN outs[1] ELSE chainResult(beforeValue(outs, n - 1), outs[n])

\* ------------------------------------------------------------------------
\* executeWithHooks: one request through a resolver
\* ------------------------------------------------------------------------

\* how many times one resolve hook calls defaultResolve
MaxDefaultCalls == 2

\* a request: where executeWithHooks stands (pc), its parameters, and for every
\* function it has called the promise state and what went in and came out
IdleRequest ==
    [pc |-> "idle", table |-> "", op |-> "", args |-> NoArgs, context |-> "",
     info |-> <<>>,                                 \* the relation fields selected, outermost first
     bst |-> <<>>, bin |-> <<>>, bout |-> <<>>,     \* before functions, in call order
     beforeData |-> "",
     runs |-> <<>>,                                 \* calls of execute (the default resolver)
     calls |-> <<>>,                                \* calls of defaultResolve by a resolve hook
     rst |-> "none",                                \* the resolve hook's promise
     ast |-> <<>>, ain |-> <<>>, aout |-> <<>>,     \* after functions, in call order
     ret |-> {}]                                    \* the value the request resolved with

\* the operation's entry in this.hooks
opHooksOf(h, r) == h[<<r.table, r.op>>]

awaited_noWait(st) == TRUE

awaitThrows_swallowed(st) == FALSE

\* await p throws p's reason when p has rejected; executeWithHooks and the chained
\* before and after of mergeHooks have no try around their awaits
awaitThrows(st) == st = "rejected"

\* await p: the continuation runs once p has settled
awaited(st) == st \in {"fulfilled", "rejected"}

\* calling a before function: the row-security closure is synchronous and returns at
\* once, a consumer's function returns a promise that settles later
callBefore(fn, ctxArgs, context) ==
    IF fn.k = "rls"
    THEN [st |-> "fulfilled", out |-> rlsBefore(fn.id, ctxArgs, context)]
    ELSE [st |-> "pending", out |-> Undefined]

\* extractRelationsParamsInner: the `with` of the relational query, one entry per
\* selected relation field, outermost first (each nested in the one before); the where
\* of an entry is the where argument given to that field
RECURSIVE extractRelationsParamsInner(_, _)
extractRelationsParamsInner(tableName, selection) ==
    LET rels == {r \in PermissionsDb.relations :
                    r.owner = tableName /\ r.name = Head(selection).name}
        rel  == CHOOSE r \in rels : TRUE
    IN  IF selection = <<>> \/ rels = {} THEN <<>>
        ELSE <<[rel |-> rel.name, table |-> rel.target,
                hasWhere |-> Head(selection).args.hasWhere,
                where |-> Head(selection).args.where]>>
             \o extractRelationsParamsInner(rel.target, Tail(selection))

extractRelationsParams(tableName, info) == extractRelationsParamsInner(tableName, info)

\* execute(args); findMany and findFirst are given where: args.where and
\* with: extractRelationsParams(tableName, parsedInfo)
callExecute(r, a) ==
    [r EXCEPT !.runs = Append(@, [args |-> a, st |-> "pending",
                                  with |-> IF r.op \in {"query", "querySingle"}
                                           THEN extractRelationsParams(r.table, r.info)
                                           ELSE <<>>])]

\* what a consumer's before function may return
BeforeOutcomes == {"undefined", "args", "data", "both", "reject"}

userBeforeResult(kind, id, ctxArgs) ==
    CASE kind = "args" -> BeforeResult(TRUE, [ctxArgs EXCEPT !.mark = id], FALSE, "")
      [] kind = "data" -> BeforeResult(FALSE, NoArgs, TRUE, id)
      [] kind = "both" -> BeforeResult(TRUE, [ctxArgs EXCEPT !.mark = id], TRUE, id)
      [] OTHER -> Undefined

\* what a consumer's after function may return: ctx.result as it is or with its own
\* addition
AfterOutcomes == {"pass", "tag", "reject"}

\* what a resolve hook may pass to defaultResolve: nothing, null, or args of its own
OverrideKinds == {"undefined", "null", "args"}

override(kind, a) ==
    IF kind = "args" THEN [kind |-> kind, args |-> [a EXCEPT !.mark = "override"]]
    ELSE [kind |-> kind, args |-> NoArgs]

defaultResolveArgs_original(overrideArgs, a) == a

\* defaultResolve = (overrideArgs) => execute(overrideArgs ?? args)
defaultResolveArgs(overrideArgs, a) ==
    IF overrideArgs.kind = "args" THEN overrideArgs.args ELSE a

\* a resolver is called: executeWithHooks runs up to its first await or return
StartRequest(t, op, a, c, info) ==
    /\ rq.pc = "idle"
    /\ LET r0      == [IdleRequest EXCEPT !.table = t, !.op = op, !.args = a, !.context = c,
                                          !.info = info]
           opHooks == hooks[<<t, op>>]
       IN  rq' = CASE opHooks.shape = "none" ->
                        [callExecute(r0, a) EXCEPT !.pc = "awaitExecute"]
                   [] opHooks.shape = "resolve" ->
                        [r0 EXCEPT !.pc = "awaitResolve", !.rst = "pending"]
                   [] opHooks.shape = "ba" /\ opHooks.before # <<>> ->
                        LET b == callBefore(opHooks.before[1], a, c)
                        IN  [r0 EXCEPT !.pc = "awaitBefore", !.bst = <<b.st>>,
                                       !.bin = <<a>>, !.bout = <<b.out>>]
                   [] OTHER ->
                        [callExecute(r0, a) EXCEPT !.pc = "awaitExecute"]
    /\ UNCHANGED <<hooks, permVars, mergeCall, inflight, gen, compiled, exec>>

\* a consumer's before function settles
BeforeSettles(i, kind) ==
    /\ i \in 1..Len(rq.bst)
    /\ rq.bst[i] = "pending"
    /\ LET fn == opHooksOf(hooks, rq).before[i]
       IN  rq' = IF kind = "reject" THEN [rq EXCEPT !.bst[i] = "rejected"]
                 ELSE [rq EXCEPT !.bst[i] = "fulfilled",
                                 !.bout[i] = userBeforeResult(kind, fn.id, rq.bin[i])]
    /\ UNCHANGED <<hooks, permVars, mergeCall, inflight, gen, compiled, exec>>

\* the continuation after await first(ctx) in a chained before, or after
\* await opHooks.before(...) in executeWithHooks
BeforeResume ==
    /\ rq.pc = "awaitBefore"
    /\ LET opHooks == opHooksOf(hooks, rq)
           n       == Len(rq.bst)
       IN  /\ awaited(rq.bst[n])
           /\ rq' =
                IF awaitThrows(rq.bst[n]) THEN [rq EXCEPT !.pc = "failed"]
                ELSE IF n < Len(opHooks.before)
                THEN LET nextArgs == nextCtxArgs(rq.args, beforeValue(rq.bout, n))
                         b        == callBefore(opHooks.before[n + 1], nextArgs, rq.context)
                     IN  [rq EXCEPT !.bst = Append(@, b.st), !.bin = Append(@, nextArgs),
                                    !.bout = Append(@, b.out)]
                ELSE LET beforeResult == beforeValue(rq.bout, n)
                         finalArgs    == IF beforeResult.defined /\ beforeResult.hasArgs
                                         THEN beforeResult.args ELSE rq.args
                         beforeData   == IF beforeResult.defined /\ beforeResult.hasData
                                         THEN beforeResult.data ELSE ""
                     IN  [callExecute(rq, finalArgs) EXCEPT !.pc = "awaitExecute",
                                                            !.beforeData = beforeData]
    /\ UNCHANGED <<hooks, permVars, mergeCall, inflight, gen, compiled, exec>>

\* a call of the default resolver settles
ExecuteSettles(k, ok) ==
    /\ k \in 1..Len(rq.runs)
    /\ rq.runs[k].st = "pending"
    /\ rq' = [rq EXCEPT !.runs[k].st = IF ok THEN "fulfilled" ELSE "rejected"]
    /\ UNCHANGED <<hooks, permVars, mergeCall, inflight, gen, compiled, exec>>

\* the continuation after await execute(finalArgs), or the settling of the promise
\* return execute(args) handed back
ExecuteResume ==
    /\ rq.pc = "awaitExecute"
    /\ LET opHooks == opHooksOf(hooks, rq)
           result  == IF rq.runs[1].st = "fulfilled" THEN {"db"} ELSE {}
       IN  /\ awaited(rq.runs[1].st)
           /\ rq' =
                IF awaitThrows(rq.runs[1].st) THEN [rq EXCEPT !.pc = "failed"]
                ELSE IF opHooks.after # <<>>
                THEN [rq EXCEPT !.pc = "awaitAfter", !.ast = <<"pending">>,
                                !.ain = <<[result |-> result, beforeData |-> rq.beforeData]>>,
                                !.aout = <<{}>>]
                ELSE [rq EXCEPT !.pc = "done", !.ret = result]
    /\ UNCHANGED <<hooks, permVars, mergeCall, inflight, gen, compiled, exec>>

\* an after function settles
AfterSettles(i, kind) ==
    /\ i \in 1..Len(rq.ast)
    /\ rq.ast[i] = "pending"
    /\ LET fn == opHooksOf(hooks, rq).after[i]
       IN  rq' = CASE kind = "reject" -> [rq EXCEPT !.ast[i] = "rejected"]
                   [] kind = "pass" -> [rq EXCEPT !.ast[i] = "fulfilled",
                                                  !.aout[i] = rq.ain[i].result]
                   [] OTHER -> [rq EXCEPT !.ast[i] = "fulfilled",
                                          !.aout[i] = rq.ain[i].result \cup {fn.id}]
    /\ UNCHANGED <<hooks, permVars, mergeCall, inflight, gen, compiled, exec>>

\* the continuation after await first(ctx) in a chained after, or the settling of
\* the promise return opHooks.after(...) handed back
AfterResume ==
    /\ rq.pc = "awaitAfter"
    /\ LET opHooks == opHooksOf(hooks, rq)
           n       == Len(rq.ast)
       IN  /\ awaited(rq.ast[n])
           /\ rq' =
                IF awaitThrows(rq.ast[n]) THEN [rq EXCEPT !.pc = "failed"]
                ELSE IF n < Len(opHooks.after)
                THEN [rq EXCEPT !.ast = Append(@, "pending"),
                                !.ain = Append(@, [result |-> rq.aout[n],
                                                   beforeData |-> rq.ain[n].beforeData]),
                                !.aout = Append(@, {})]
                ELSE [rq EXCEPT !.pc = "done", !.ret = rq.aout[n]]
    /\ UNCHANGED <<hooks, permVars, mergeCall, inflight, gen, compiled, exec>>

\* the resolve hook calls ctx.defaultResolve(overrideArgs)
ResolveCallsDefault(kind) ==
    /\ rq.pc = "awaitResolve"
    /\ rq.rst = "pending"
    /\ Len(rq.calls) < MaxDefaultCalls
    /\ LET overrideArgs == override(kind, rq.args)
       IN  rq' = [callExecute(rq, defaultResolveArgs(overrideArgs, rq.args))
                    EXCEPT !.calls = Append(@, overrideArgs)]
    /\ UNCHANGED <<hooks, permVars, mergeCall, inflight, gen, compiled, exec>>

\* the resolve hook settles: with a value of its own, with what its last
\* defaultResolve call gave, or with an error
ResolveSettles(kind) ==
    /\ rq.pc = "awaitResolve"
    /\ rq.rst = "pending"
    /\ kind = "default" => /\ rq.runs # <<>>
                           /\ rq.runs[Len(rq.runs)].st \in {"fulfilled", "rejected"}
    /\ LET ok == /\ kind # "reject"
                 /\ kind = "default" => rq.runs[Len(rq.runs)].st = "fulfilled"
       IN  rq' = [rq EXCEPT !.rst = IF ok THEN "fulfilled" ELSE "rejected",
                            !.pc = IF ok THEN "done" ELSE "failed",
                            !.ret = IF ~ok THEN {}
                                    ELSE IF kind = "default" THEN {"db"} ELSE {"custom"}]
    /\ UNCHANGED <<hooks, permVars, mergeCall, inflight, gen, compiled, exec>>

\* the promise executeWithHooks returned has settled and the resolver's caller has
\* taken its outcome; requests share no state, the next one starts afresh
RequestReturns ==
    /\ rq.pc \in {"done", "failed"}
    /\ rq' = IdleRequest
    /\ UNCHANGED <<hooks, permVars, mergeCall, inflight, gen, compiled, exec>>

\* ------------------------------------------------------------------------
\* mergeHooks as an operation of its own
\* ------------------------------------------------------------------------

NoMerge == [configs |-> <<>>, done |-> FALSE, result |-> EmptyHooks]

MergeHooks ==
    /\ ~mergeCall.done
    /\ mergeCall.configs # <<>>
    /\ mergeCall' = [mergeCall EXCEPT !.done = TRUE, !.result = mergeHooks(mergeCall.configs)]
    /\ UNCHANGED <<hooks, rq, permVars, inflight, gen, compiled, exec>>

\* ------------------------------------------------------------------------
\* Hook configurations
\* ------------------------------------------------------------------------

HookShapes == {"before", "after", "both", "resolve"}

\* an OperationHooks object written by consumer id
UserHooks(id, s) ==
    CASE s = "before" -> [shape |-> "ba", before |-> <<UserFn(id)>>, after |-> <<>>,
                          resolve |-> NoFn]
      [] s = "after" -> [shape |-> "ba", before |-> <<>>, after |-> <<UserFn(id)>>,
                         resolve |-> NoFn]
      [] s = "both" -> [shape |-> "ba", before |-> <<UserFn(id)>>, after |-> <<UserFn(id)>>,
                        resolve |-> NoFn]
      [] s = "resolve" -> [shape |-> "resolve", before |-> <<>>, after |-> <<>>,
                           resolve |-> UserFn(id)]
      [] OTHER -> NoHooks

\* { posts: { query: ..., insert: ... } }
UserConfig(id, sQuery, sInsert) ==
    [x \in HookKeys |-> CASE x = <<"posts", "query">> -> UserHooks(id, sQuery)
                          [] x = <<"posts", "insert">> -> UserHooks(id, sInsert)
                          [] OTHER -> NoHooks]

\* the hooks a builder is constructed with
InstalledHooks ==
    {EmptyHooks}
    \cup {withRowSecurity("posts" :> r) : r \in RuleIds}
    \cup {UserConfig("A", s, "none") : s \in HookShapes}
    \cup {mergeHooks(<<a, UserConfig("B", s, "none")>>) :
            a \in {withRowSecurity("posts" :> "own")}
                  \cup {UserConfig("A", sa, "none") : sa \in HookShapes},
            s \in HookShapes}

\* the configurations mergeHooks is called with
MergeConfigs(id) ==
    {UserConfig(id, sq, si) : sq \in HookShapes \cup {"none"}, si \in HookShapes \cup {"none"}}

\* ------------------------------------------------------------------------
\* Concurrent requests that derive their schema with withPermissions
\* ------------------------------------------------------------------------

\* how many requests are in flight at once
MaxRequests == 3

RequestSlots == 1..MaxRequests

NoRequest == [st |-> "none", p |-> Policy("", "restricted", NoAccess, NoAccess, NoAccess),
              newId |-> FALSE, got |-> 0]

NoRequests == [r \in RequestSlots |-> NoRequest]

\* a request arrives with the policy of its caller; the server has not yet run its
\* handler.  newId records that no schema was cached for the policy id at that time.
RequestArrives(r, p) ==
    /\ inflight[r].st = "none"
    /\ inflight' = [inflight EXCEPT ![r] = [st |-> "waiting", p |-> p,
                                            newId |-> ~cacheHit(cache, p.id), got |-> 0]]
    /\ UNCHANGED <<permVars, hooks, rq, mergeCall, gen, compiled, exec>>

\* the handler of a waiting request runs: it calls withPermissions, in any order
\* relative to the other requests in flight
RequestServed(r) ==
    /\ inflight[r].st = "waiting"
    /\ callWithPermissions(inflight[r].p)
    /\ inflight' = [inflight EXCEPT ![r].st = "served", ![r].got = lastCall'.ret]
    /\ UNCHANGED <<hooks, rq, mergeCall, gen, compiled, exec>>

\* the policies requests arrive with: two ids, two rule sets under each
ConcurrentPolicies == {p \in CachePolicies : p.mode = "restricted"}

\* ------------------------------------------------------------------------
\* A builder constructed on a Drizzle schema: buildEntities
\* ------------------------------------------------------------------------

\* the largest limitRelationDepth configured
MaxDepth == 4

\* the largest limitSelfRelationDepth configured
MaxSelfDepth == 3

\* limitRelationDepth: not given (or undefined), or a nonnegative integer
DepthLimits == {NoNumber} \cup {[given |-> TRUE, n |-> k] : k \in 0..MaxDepth}

\* limitSelfRelationDepth: not given, or a positive integer
SelfDepthLimits == {NoNumber} \cup {[given |-> TRUE, n |-> k] : k \in 1..MaxSelfDepth}

\* RelationPruneRule for an edge: false, 'leaf', or { only: [...] } listing none or one
\* of the target's relations
PruneRules(db, r) ==
    {[kind |-> "omit", only |-> {}], [kind |-> "leaf", only |-> {}],
     [kind |-> "only", only |-> {}]}
    \cup {[kind |-> "only", only |-> {x.name}] : x \in {y \in db.relations : y.owner = r.target}}

\* pruneRelations: no rule, or one rule on one edge
PruneRuleSets(db) ==
    {<<>>} \cup UNION {{(<<r.owner, r.name>> :> rl) : rl \in PruneRules(db, r)} : r \in db.relations}

\* new SchemaBuilder(db, { limitRelationDepth, limitSelfRelationDepth, pruneRelations })
SelectConfig(db, D, S, prune) ==
    [db |-> db, mutations |-> "U", exclude |-> {},
     tcfg |-> [t \in db.tables |-> NoOps],
     limitRelationDepth |-> D, limitSelfRelationDepth |-> S, pruneRelations |-> prune]

SelectConfigs ==
    {SelectConfig(db, D, S, prune) :
        db \in {SelfRefDb, ParentChildDb, ChainDb, TwoPathsDb}, D \in DepthLimits, S \in SelfDepthLimits,
        prune \in PruneRuleSets(SelfRefDb) \cup PruneRuleSets(ParentChildDb)}

NoBuild == [done |-> FALSE, cfg |-> SelectConfig(ChainDb, NoNumber, NoNumber, <<>>), types |-> {}]

\* builder.buildEntities()
BuildEntities ==
    /\ ~gen.done
    /\ gen' = [gen EXCEPT !.done = TRUE, !.types = buildEntities(gen.cfg).types]
    /\ UNCHANGED <<permVars, hooks, rq, mergeCall, inflight, compiled, exec>>

\* ------------------------------------------------------------------------
\* Filter extraction
\* ------------------------------------------------------------------------

\* the most operator keys (or column and relation keys) in one filter object
MaxKeys == 2

\* the most variants in one OR list
MaxVariants == 2

\* JavaScript values of filter inputs and SQL parameters: a tag, a number (the digits of
\* a numeric string, the value of a bigint, 0/1 for a boolean) and an array's items
JsNull == [t |-> "null", v |-> 0, items |-> <<>>]

JsFalse == [t |-> "boolean", v |-> 0, items |-> <<>>]

JsTrue == [t |-> "boolean", v |-> 1, items |-> <<>>]

JsString(n) == [t |-> "string", v |-> n, items |-> <<>>]

JsBigInt(n) == [t |-> "bigint", v |-> n, items |-> <<>>]

JsArray(xs) == [t |-> "array", v |-> 0, items |-> xs]

JsObject == [t |-> "object", v |-> 0, items |-> <<>>]

\* a key of a filter object with a scalar, array or null value
Entry(k, val) == [key |-> k, value |-> val, sub |-> <<>>]

\* a key of a filter object whose value is a nested object
ObjEntry(k, obj) == [key |-> k, value |-> JsObject, sub |-> <<obj>>]

\* a filter object: its keys other than OR in insertion order, and its OR list
Obj(es, hasOR, list) == [entries |-> es, hasOR |-> hasOR, OR |-> list]

EmptyObj == Obj(<<>>, FALSE, <<>>)

ViewsColumn == [name |-> "views", dataType |-> "bigint"]

PublishedColumn == [name |-> "published", dataType |-> "boolean"]

\* getTableColumns(table): every table of the filter schema has the same two columns
getTableColumns(tableName) == {ViewsColumn, PublishedColumn}

comparisonOps == {"eq", "ne", "gt", "gte", "lt", "lte"}

stringOps == {"like", "notLike", "ilike", "notIlike"}

arrayOps == {"inArray", "notInArray"}

nullOps == {"isNull", "isNotNull"}

ConflictingColumnOr == "Cannot specify both fields and 'OR' in column operators!"

ConflictingTableOr == "Cannot specify both fields and 'OR' in table filters!"

EmptyArray == "Unable to use operator with an empty array!"

NotABigInt == "is not a BigInt!"

\* remapFromGraphQLCore: BigInt(value) for a bigint column, the value itself otherwise
\* (no date, buffer, json or array column is among the columns above)
remapFromGraphQLCore(value, column) ==
    IF column.dataType = "bigint"
    THEN (IF value.t \in {"string", "boolean", "bigint"}
          THEN [ok |-> TRUE, value |-> JsBigInt(value.v)]
          ELSE [ok |-> FALSE, value |-> value])
    ELSE [ok |-> TRUE, value |-> value]

\* an SQL condition: a comparison of a column, or and/or/not/exists over conditions
binary(op, column, val) == [k |-> "cmp", col |-> column.name, op |-> op, val |-> val, kids |-> <<>>]

nary(kind, conditions) == [k |-> kind, col |-> "", op |-> "", val |-> JsNull, kids |-> conditions]

\* what an extraction hands back: an SQL condition, undefined, or a thrown GraphQLError
Sql(c) == [status |-> "sql", error |-> "", sql |-> <<c>>]

NoSql == [status |-> "undefined", error |-> "", sql |-> <<>>]

Thrown(msg) == [status |-> "error", error |-> msg, sql |-> <<>>]

\* the conditions pushed to `variants` by the first n steps of a loop
RECURSIVE pushed(_, _)
pushed(rs, n) == IF n = 0 THEN <<>> ELSE pushed(rs, n - 1) \o rs[n].sql

\* variants.length ? (variants.length > 1 ? and/or(...variants) : variants[0]) : undefined
combined(kind, variants) ==
    IF Len(variants) = 0 THEN NoSql
    ELSE IF Len(variants) > 1 THEN Sql(nary(kind, variants))
    ELSE Sql(variants[1])

\* a loop over steps that push a condition, push nothing, or throw: the first throw
\* ends it, otherwise the pushed conditions are combined
collect(kind, rs) ==
    IF \E i \in DOMAIN rs : rs[i].status = "error"
    THEN rs[CHOOSE i \in DOMAIN rs :
                /\ rs[i].status = "error"
                /\ \A j \in 1..(i - 1) : rs[j].status # "error"]
    ELSE combined(kind, pushed(rs, Len(rs)))

\* if (!operators.OR?.length) delete operators.OR
orGiven(obj) == obj.hasOR /\ Len(obj.OR) > 0

columnOrConflict_never(operators) == FALSE

\* entries.length > 1 when operators.OR is there: any key other than OR
columnOrConflict(operators) == Len(operators.entries) + 1 > 1

\* one pass of the loop over the operator entries
operatorStep(column, e) ==
    IF e.value.t = "null" \/ e.value = JsFalse THEN NoSql
    ELSE IF e.key \in comparisonOps
    THEN (LET r == remapFromGraphQLCore(e.value, column)
          IN  IF r.ok THEN Sql(binary(e.key, column, r.value)) ELSE Thrown(NotABigInt))
    ELSE IF e.key \in stringOps THEN Sql(binary(e.key, column, e.value))
    ELSE IF e.key \in arrayOps
    THEN (LET rs == [i \in DOMAIN e.value.items |-> remapFromGraphQLCore(e.value.items[i], column)]
          IN  IF Len(e.value.items) = 0 THEN Thrown(EmptyArray)
              ELSE IF \E i \in DOMAIN rs : ~rs[i].ok THEN Thrown(NotABigInt)
              ELSE Sql(binary(e.key, column, JsArray([i \in DOMAIN rs |-> rs[i].value]))))
    ELSE IF e.key \in nullOps THEN Sql(binary(e.key, column, JsNull))
    ELSE NoSql

RECURSIVE extractColumnFilters(_, _)
extractColumnFilters(column, operators) ==
    IF orGiven(operators)
    THEN (IF columnOrConflict(operators) THEN Thrown(ConflictingColumnOr)
          ELSE collect("or", [i \in DOMAIN operators.OR |->
                                 extractColumnFilters(column, operators.OR[i])]))
    ELSE collect("and", [i \in DOMAIN operators.entries |->
                            operatorStep(column, operators.entries[i])])

\* the schema the filters are extracted on: testSchema, parent.children and child.parent
\* parent and child with their two relations, and two relations whose key pairs cannot
\* be resolved: parent.strays, a many relation without a reverse one relation, and
\* child.ghost, a one relation declared with empty fields and references
FilterDb ==
    [tables |-> ParentChildDb.tables,
     relations |-> ParentChildDb.relations \cup
        { [owner |-> "parent", name |-> "strays", target |-> "child",  one |-> FALSE],
          [owner |-> "child",  name |-> "ghost",  target |-> "parent", one |-> TRUE] }]

columnNamed(tableName, key) == CHOOSE c \in getTableColumns(tableName) : c.name = key

isColumn(tableName, key) == \E c \in getTableColumns(tableName) : c.name = key

tableOrConflict_never(columnEntries, relationEntries) == FALSE

\* columnEntries.length > 0 || relationEntries.length > 0
tableOrConflict(columnEntries, relationEntries) ==
    Len(columnEntries) > 0 \/ Len(relationEntries) > 0

\* normalizeRelation(schema, tableNamesMap, relation) of the ORM: the relation's key
\* pairs (here their number), or an exception when there is nothing to infer them from
normalizeRelation(rel) ==
    CASE rel.name = "strays" -> [threw |-> TRUE, fields |-> 0, references |-> 0]
      [] rel.name = "ghost" -> [threw |-> FALSE, fields |-> 0, references |-> 0]
      [] OTHER -> [threw |-> FALSE, fields |-> 1, references |-> 1]

\* the relation's fields matched with its references
joinOn(rel) == [k |-> "join", col |-> rel.name, op |-> "", val |-> JsNull, kids |-> <<>>]

buildJoinCondition_unchecked(rel) == Sql(joinOn(rel))

\* buildJoinCondition: undefined when normalizeRelation throws (the catch) or gives no
\* fields or no references
buildJoinCondition(rel) ==
    LET n == normalizeRelation(rel)
    IN  IF n.threw \/ n.fields = 0 \/ n.references = 0 THEN NoSql ELSE Sql(joinOn(rel))

RECURSIVE extractTableColumnFilters(_, _)
RECURSIVE extractRelationFilters(_, _, _)
RECURSIVE buildExistsSubquery(_, _, _)
buildExistsSubquery(rel, filterValue, quantifier) ==
    LET joined == buildJoinCondition(rel)
        joinCondition == joined.sql[1]
        innerFilter == extractTableColumnFilters(rel.target, filterValue)
        whereClause ==
            IF innerFilter.status = "sql"
            THEN nary("and", <<joinCondition, innerFilter.sql[1]>>)
            ELSE joinCondition
    IN  IF joined.status # "sql" THEN NoSql
        ELSE IF innerFilter.status = "error" THEN innerFilter
        ELSE IF quantifier = "some" THEN Sql(nary("exists", <<whereClause>>))
        ELSE IF quantifier = "none" THEN Sql(nary("not", <<nary("exists", <<whereClause>>)>>))
        ELSE IF innerFilter.status # "sql" THEN NoSql
        ELSE Sql(nary("not", <<nary("exists",
                    <<nary("and", <<joinCondition, nary("not", <<innerFilter.sql[1]>>)>>)>>)>>))

extractRelationFilters(tableName, relationName, filterValue) ==
    LET rels == {r \in FilterDb.relations : r.owner = tableName /\ r.name = relationName}
        rel == CHOOSE r \in rels : TRUE
        quantified(q) ==
            LET given == {i \in DOMAIN filterValue.entries :
                             filterValue.entries[i].key = q /\ filterValue.entries[i].value.t = "object"}
            IN  IF given = {} THEN NoSql
                ELSE buildExistsSubquery(rel, filterValue.entries[CHOOSE i \in given : TRUE].sub[1], q)
    IN  IF rels = {} THEN NoSql
        ELSE IF rel.one THEN buildExistsSubquery(rel, filterValue, "some")
        ELSE collect("and", <<quantified("some"), quantified("every"), quantified("none")>>)

extractTableColumnFilters(tableName, filters) ==
    LET columnEntries ==
            SelectSeq(filters.entries, LAMBDA e : e.value.t # "null" /\ isColumn(tableName, e.key))
        relationEntries ==
            SelectSeq(filters.entries, LAMBDA e : e.value.t # "null" /\ ~isColumn(tableName, e.key))
    IN  IF orGiven(filters)
        THEN (IF tableOrConflict(columnEntries, relationEntries) THEN Thrown(ConflictingTableOr)
              ELSE collect("or", [i \in DOMAIN filters.OR |->
                                     extractTableColumnFilters(tableName, filters.OR[i])]))
        ELSE collect("and",
                [i \in DOMAIN columnEntries |->
                    extractColumnFilters(columnNamed(tableName, columnEntries[i].key),
                                         columnEntries[i].sub[1])]
                \o [i \in DOMAIN relationEntries |->
                    extractRelationFilters(tableName, relationEntries[i].key,
                                           relationEntries[i].sub[1])])

\* extractAllFilters(table, tableName, filters)
extractAllFilters(tableName, filters) == extractTableColumnFilters(tableName, filters)

\* -- the filter objects extracted --

distinctKeys(es) == \A i, j \in DOMAIN es : i # j => es[i].key # es[j].key

\* the sequences of at most n entries with distinct keys
EntrySeqs(E, n) == UNION {{es \in [1..k -> E] : distinctKeys(es)} : k \in 0..n}

OrLists(V) == UNION {[1..k -> V] : k \in 0..MaxVariants}

\* what GraphQL hands over for a value of the column: a numeric string for a bigint
ScalarValues(column) ==
    IF column.dataType = "bigint" THEN {JsString(1), JsString(2)} ELSE {JsFalse, JsTrue}

OperatorEntries(column) ==
    {Entry(k, val) : k \in {"eq", "gt"}, val \in {JsNull} \cup ScalarValues(column)}
    \cup {Entry("inArray", JsArray(<<>>))}
    \cup {Entry("inArray", JsArray(<<val>>)) : val \in ScalarValues(column)}
    \cup {Entry("isNull", val) : val \in {JsFalse, JsTrue}}

\* the variants of a column filter's OR list: operator keys only, no OR of their own
OrVariants(column) ==
    {EmptyObj}
    \cup {Obj(<<Entry(k, val)>>, FALSE, <<>>) :
              k \in {"eq", "gt"}, val \in {JsNull} \cup ScalarValues(column)}

ColumnFilters(column) ==
    {Obj(es, FALSE, <<>>) : es \in EntrySeqs(OperatorEntries(column), MaxKeys)}
    \cup {Obj(es, TRUE, list) : es \in EntrySeqs(OperatorEntries(column), 1),
                                list \in OrLists(OrVariants(column))}

ViewsEq1 == Obj(<<Entry("eq", JsString(1))>>, FALSE, <<>>)

PublishedEqFalse == Obj(<<Entry("eq", JsFalse)>>, FALSE, <<>>)

ViewsInNothing == Obj(<<Entry("inArray", JsArray(<<>>))>>, FALSE, <<>>)

\* filters on the target of a relation without key pairs: one that compiles and one
\* whose extraction throws
StrayFilters ==
    {Obj(<<ObjEntry("views", ViewsEq1)>>, FALSE, <<>>),
     Obj(<<ObjEntry("views", ViewsInNothing)>>, FALSE, <<>>)}

ChildFilters ==
    {EmptyObj, Obj(<<ObjEntry("views", ViewsEq1)>>, FALSE, <<>>),
     Obj(<<ObjEntry("ghost", Obj(<<ObjEntry("views", ViewsInNothing)>>, FALSE, <<>>))>>, FALSE, <<>>),
     Obj(<<ObjEntry("parent", Obj(<<ObjEntry("published", PublishedEqFalse)>>, FALSE, <<>>))>>, FALSE, <<>>)}

TableEntries ==
    {Entry(k, JsNull) : k \in {"views", "published", "children"}}
    \cup {ObjEntry("views", ViewsEq1), ObjEntry("published", PublishedEqFalse),
          ObjEntry("views", Obj(<<Entry("gt", JsString(1))>>, TRUE, <<ViewsEq1>>))}
    \cup {ObjEntry("children", Obj(<<ObjEntry(q, f)>>, FALSE, <<>>)) :
              q \in {"some", "every", "none"}, f \in ChildFilters}
    \cup {ObjEntry("strays", Obj(<<ObjEntry(q, f)>>, FALSE, <<>>)) :
              q \in {"some", "every", "none"}, f \in StrayFilters}

\* the variants of a table filter's OR list: column and relation keys, no OR of their own
TableOrVariants ==
    {EmptyObj, Obj(<<ObjEntry("views", ViewsEq1)>>, FALSE, <<>>),
     Obj(<<ObjEntry("strays", Obj(<<ObjEntry("some", Obj(<<ObjEntry("views", ViewsInNothing)>>, FALSE, <<>>))>>, FALSE, <<>>))>>, FALSE, <<>>),
     Obj(<<Entry("published", JsNull)>>, FALSE, <<>>),
     Obj(<<ObjEntry("published", PublishedEqFalse)>>, FALSE, <<>>),
     Obj(<<ObjEntry("views", Obj(<<Entry("gt", JsString(1))>>, TRUE, <<ViewsEq1>>))>>, FALSE, <<>>)}

TableFilters ==
    {Obj(es, FALSE, <<>>) : es \in EntrySeqs(TableEntries, MaxKeys)}
    \cup {Obj(es, TRUE, list) : es \in EntrySeqs(TableEntries, 1), list \in OrLists(TableOrVariants)}

NoCompile == [done |-> FALSE, level |-> "column", column |-> ViewsColumn, table |-> "parent", input |-> EmptyObj, result |-> NoSql]

\* builder.extractColumnFilters(column, columnName, operators)
ExtractColumnFilters ==
    /\ ~compiled.done
    /\ compiled.level = "column"
    /\ compiled' = [compiled EXCEPT !.done = TRUE,
                                    !.result = extractColumnFilters(compiled.column, compiled.input)]
    /\ UNCHANGED <<permVars, hooks, rq, mergeCall, inflight, gen, exec>>

\* builder.extractAllFilters(table, tableName, filters)
ExtractAllFilters ==
    /\ ~compiled.done
    /\ compiled.level = "table"
    /\ compiled' = [compiled EXCEPT !.done = TRUE,
                                    !.result = extractAllFilters(compiled.table, compiled.input)]
    /\ UNCHANGED <<permVars, hooks, rq, mergeCall, inflight, gen, exec>>

\* ------------------------------------------------------------------------
\* The execute closure of a resolver and its storage calls
\* ------------------------------------------------------------------------

\* a value thrown in JavaScript: its type, for an object its class and the type and text
\* of its message property, for a string its text
JsThrown(t, cls, msgType, msg, v) == [t |-> t, cls |-> cls, msgType |-> msgType, msg |-> msg, v |-> v]

JsUndefined == JsThrown("undefined", "", "none", "", "")

\* new Error(msg), or a driver's error object with a message
ErrorObject(msg) == JsThrown("object", "Error", "string", msg, "")

\* new GraphQLError(msg)
GraphQLError(msg) == JsThrown("object", "GraphQLError", "string", msg, "")

\* what a storage call may throw: errors with a message (an empty one too), an object
\* whose message is not a string, an object without message, a string, null, undefined
ThrownValues ==
    {ErrorObject("duplicate key"), ErrorObject(""), GraphQLError("denied"),
     JsThrown("object", "Object", "number", "", ""),
     JsThrown("object", "Object", "none", "", ""),
     JsThrown("string", "", "none", "", "timeout"),
     JsThrown("null", "", "none", "", ""),
     JsUndefined}

NoValuesProvided == "No values were provided!"

NoValuesSpecified == "Unable to update with no values specified!"

\* what the closure throws itself before it calls the storage: the empty input of
\* insert and update, a value remapFromGraphQLSingleInput rejects, a filter that
\* extractAllFilters rejects
inputError(op) ==
    CASE op = "insert" -> GraphQLError(NoValuesProvided)
      [] op = "update" -> GraphQLError(NoValuesSpecified)
      [] op = "insertSingle" -> GraphQLError(NotABigInt)
      [] OTHER -> GraphQLError(EmptyArray)

surface_rethrow(e) == e

\* catch (e) { if (typeof e === 'object' && e !== null && 'message' in e &&
\*             typeof e.message === 'string') throw new GraphQLError(e.message); throw e }
surface(e) == IF e.t = "object" /\ e.msgType = "string" THEN GraphQLError(e.msg) ELSE e

NoExecute ==
    [pc |-> "idle", op |-> "", hasCount |-> FALSE, thrown |-> <<>>,
     outcome |-> [kind |-> "none", err |-> JsUndefined]]

returned == [kind |-> "value", err |-> JsUndefined]

rejected(e) == [kind |-> "error", err |-> e]

\* execute(finalArgs) of the resolver of operation op, on a db that has $count or has
\* not: the closure runs to its first storage call, or throws on its input before it.
\* Without hooks executeWithHooks returns execute(args), so what the closure gives is
\* what the resolver's caller gets.
Execute(op, hasCount, inputOk) ==
    /\ exec.pc = "idle"
    /\ exec' = IF ~inputOk
               THEN [NoExecute EXCEPT !.pc = "failed", !.op = op, !.hasCount = hasCount,
                                      !.outcome = rejected(surface(inputError(op)))]
               ELSE [NoExecute EXCEPT !.op = op, !.hasCount = hasCount,
                                      !.pc = IF op = "count" /\ hasCount THEN "awaitCount"
                                             ELSE "awaitStorage"]
    /\ UNCHANGED <<permVars, hooks, rq, mergeCall, inflight, gen, compiled>>

\* executeCountQuery: db.$count(table, where) settles; its error is caught and dropped,
\* and the manual count query is started
CountSettles(ok, e) ==
    /\ exec.pc = "awaitCount"
    /\ exec' = IF ok THEN [exec EXCEPT !.pc = "done", !.outcome = returned]
               ELSE [exec EXCEPT !.pc = "awaitStorage",
                                 !.thrown = Append(@, [by |-> "$count", value |-> e])]
    /\ UNCHANGED <<permVars, hooks, rq, mergeCall, inflight, gen, compiled>>

\* the awaited storage call settles: findMany, findFirst, the manual count query,
\* adapter.executeInsert, executeUpdate or executeDelete; what it throws goes through
\* the closure's catch
StorageSettles(ok, e) ==
    /\ exec.pc = "awaitStorage"
    /\ exec' = IF ok THEN [exec EXCEPT !.pc = "done", !.outcome = returned]
               ELSE [exec EXCEPT !.pc = "failed", !.outcome = rejected(surface(e)),
                                 !.thrown = Append(@, [by |-> "storage", value |-> e])]
    /\ UNCHANGED <<permVars, hooks, rq, mergeCall, inflight, gen, compiled>>

\* the caller has taken the outcome
ExecuteReturns ==
    /\ exec.pc \in {"done", "failed"}
    /\ exec' = NoExecute
    /\ UNCHANGED <<permVars, hooks, rq, mergeCall, inflight, gen, compiled>>

\* ------------------------------------------------------------------------
\* Specifications
\* ------------------------------------------------------------------------

InitPerm(configs) ==
    /\ baseConfig \in configs
    /\ heap = <<>>
    /\ cache = <<>>
    /\ lastCall = NoCall
    /\ firstRet = <<>>
    /\ evicted = {}

\* no request served and no mergeHooks call made
InitNoRequest ==
    /\ rq = IdleRequest
    /\ mergeCall = NoMerge
    /\ inflight = NoRequests
    /\ gen = NoBuild
    /\ compiled = NoCompile
    /\ exec = NoExecute

\* the permission cache: a few policies under two ids, with eviction requests
Init ==
    /\ InitPerm({DefaultConfig, Config("U", {"audit"}, NoOps), Config("F", {}, NoOps)})
    /\ hooks = EmptyHooks
    /\ InitNoRequest

Next ==
    \/ \E p \in CachePolicies : WithPermissions(p)
    \/ \E id \in PolicyIds \cup {""} : ClearPermissionCache(id)

Spec == Init /\ [][Next]_vars

\* schema derivation: every base configuration against every policy
InitDerive ==
    /\ InitPerm(BaseConfigs)
    /\ hooks = EmptyHooks
    /\ InitNoRequest

NextDerive == \E p \in DerivePolicies : WithPermissions(p)

SpecDerive == InitDerive /\ [][NextDerive]_vars

\* requests through the resolvers of a builder constructed with hooks
InitHooks ==
    /\ InitPerm({DefaultConfig})
    /\ hooks \in InstalledHooks
    /\ InitNoRequest

NextHooks ==
    \/ \E t \in HookTables, op \in OperationTypes, a \in RequestArgs, c \in Contexts :
          \E info \in Selections(t, op) : StartRequest(t, op, a, c, info)
    \/ \E i \in 1..Len(rq.bst), kind \in BeforeOutcomes : BeforeSettles(i, kind)
    \/ BeforeResume
    \/ \E k \in 1..Len(rq.runs), ok \in BOOLEAN : ExecuteSettles(k, ok)
    \/ ExecuteResume
    \/ \E i \in 1..Len(rq.ast), kind \in AfterOutcomes : AfterSettles(i, kind)
    \/ AfterResume
    \/ \E kind \in OverrideKinds : ResolveCallsDefault(kind)
    \/ \E kind \in {"custom", "default", "reject"} : ResolveSettles(kind)
    \/ RequestReturns

SpecHooks == InitHooks /\ [][NextHooks]_vars

\* mergeHooks(A, B) for every pair of configurations
InitMerge ==
    /\ InitPerm({DefaultConfig})
    /\ hooks = EmptyHooks
    /\ rq = IdleRequest
    /\ inflight = NoRequests
    /\ gen = NoBuild
    /\ compiled = NoCompile
    /\ exec = NoExecute
    /\ mergeCall \in {[NoMerge EXCEPT !.configs = <<a, b>>] :
                        a \in MergeConfigs("A"), b \in MergeConfigs("B")}

NextMerge == MergeHooks

SpecMerge == InitMerge /\ [][NextMerge]_vars

\* requests in flight together, each deriving the schema of its policy
InitConcurrent ==
    /\ InitPerm({DefaultConfig})
    /\ hooks = EmptyHooks
    /\ InitNoRequest

NextConcurrent ==
    \/ \E r \in RequestSlots, p \in ConcurrentPolicies : RequestArrives(r, p)
    \/ \E r \in RequestSlots : RequestServed(r)

SpecConcurrent == InitConcurrent /\ [][NextConcurrent]_vars

\* buildEntities on the schema-builder test schemas under every limit and prune rule
InitSelect ==
    /\ InitPerm({DefaultConfig})
    /\ hooks = EmptyHooks
    /\ rq = IdleRequest
    /\ mergeCall = NoMerge
    /\ inflight = NoRequests
    /\ compiled = NoCompile
    /\ exec = NoExecute
    /\ gen \in {[NoBuild EXCEPT !.cfg = c] : c \in SelectConfigs}

NextSelect == BuildEntities

SpecSelect == InitSelect /\ [][NextSelect]_vars

\* one filter object handed to extractColumnFilters or to extractAllFilters
InitFilter ==
    /\ InitPerm({DefaultConfig})
    /\ hooks = EmptyHooks
    /\ rq = IdleRequest
    /\ mergeCall = NoMerge
    /\ inflight = NoRequests
    /\ gen = NoBuild
    /\ exec = NoExecute
    /\ compiled \in
          {[NoCompile EXCEPT !.column = c, !.input = f] :
              c \in {ViewsColumn}, f \in ColumnFilters(ViewsColumn)}
          \cup {[NoCompile EXCEPT !.column = c, !.input = f] :
              c \in {PublishedColumn}, f \in ColumnFilters(PublishedColumn)}
          \cup {[NoCompile EXCEPT !.level = "table", !.input = f] : f \in TableFilters}
          \cup {[NoCompile EXCEPT !.level = "table", !.table = "child", !.input = f] :
                    f \in ChildFilters}

NextFilter == ExtractColumnFilters \/ ExtractAllFilters

SpecFilter == InitFilter /\ [][NextFilter]_vars

\* one run of a resolver's execute closure after the other
InitExecute ==
    /\ InitPerm({DefaultConfig})
    /\ hooks = EmptyHooks
    /\ InitNoRequest

NextExecute ==
    \/ \E op \in OperationTypes, hasCount \in BOOLEAN, inputOk \in BOOLEAN :
          Execute(op, hasCount, inputOk)
    \/ \E ok \in BOOLEAN, e \in ThrownValues : CountSettles(ok, e)
    \/ \E ok \in BOOLEAN, e \in ThrownValues : StorageSettles(ok, e)
    \/ ExecuteReturns

SpecExecute == InitExecute /\ [][NextExecute]_vars

\* ------------------------------------------------------------------------
\* Properties of the permission view builder
\* ------------------------------------------------------------------------

\* a flag of a TableAccess object as the policy's mode resolves it
Resolved(p, flag) == flag = "T" \/ (flag = "U" /\ p.mode = "permissive")

\* the policy excludes table X: X is false, X is not granted under a default-deny
\* policy, or all four operation flags of X resolve to false
Excludes(p, X) ==
    LET a == p.tables[X]
    IN  \/ a.kind = "F"
        \/ a.kind = "U" /\ p.mode = "restricted"
        \/ /\ a.kind = "G"
           /\ ~Resolved(p, a.query) /\ ~Resolved(p, a.insert)
           /\ ~Resolved(p, a.update) /\ ~Resolved(p, a.delete)

\* schema s has nothing of table X: no entry point, no type, no relation field to X
Unreachable(s, X) ==
    /\ \A e \in s.queries \cup s.mutations : e.table # X
    /\ \A n \in s.types : n.table # X /\ (\A f \in n.fields : f.target # X)

\* C1: for every policy that excludes a table X, the schema withPermissions derives
\* from it has no entry point for X and no type with a relation field whose target is X.
C1_ExcludedTableUnreachable ==
    \A i \in 1..Len(heap) : \A X \in Tables :
        Excludes(heap[i].from, X) => Unreachable(heap[i].schema, X)

\* a policy excluding posts was derived on a base with every table, and the derived
\* schema still has the users types, which own a relation to posts in the base schema
C1_Witness ==
    \E i \in 1..Len(heap) :
        /\ baseConfig.exclude = {}
        /\ Excludes(heap[i].from, "posts")
        /\ \E n \in heap[i].schema.types : n.kind = "select" /\ n.table = "users"
        /\ lastCall.ret = i /\ lastCall.built

\* restricted(id, { posts: { query: true } })
PostsReadOnlyGrant(p) ==
    /\ p.mode = "restricted"
    /\ p.tables = [t \in Tables |-> IF t = "posts" THEN [NoAccess EXCEPT !.kind = "G", !.query = "T"]
                                    ELSE NoAccess]

\* C2: under a default-deny policy whose only grant is {posts: {query: true}}, derived
\* on a base schema that has the posts table, the entry points are exactly the list,
\* single and count operations of posts, and the schema has no mutation entry point
\* and no mutation root.
C2_PostsReadOnlyEntryPoints ==
    \A i \in 1..Len(heap) :
        PostsReadOnlyGrant(heap[i].from) /\ "posts" \notin baseConfig.exclude
        => /\ heap[i].schema.queries = {[table |-> "posts", op |-> o] : o \in QueryOps}
           /\ heap[i].schema.mutations = {}
           /\ ~heap[i].schema.hasMutationType

C2_Witness ==
    \E i \in 1..Len(heap) :
        /\ PostsReadOnlyGrant(heap[i].from)
        /\ baseConfig = DefaultConfig
        /\ lastCall.ret = i /\ lastCall.built
        /\ Cardinality(heap[i].schema.queries) = 3

\* the TableAccess flag that governs a mutation operation
FlagOf(a, op) ==
    CASE op \in {"insert", "insertSingle"} -> a.insert
      [] op = "update" -> a.update
      [] op = "delete" -> a.delete

\* C3: for a table given granular access by a policy (on a base schema that has the
\* table and generates mutations), each of the table's mutation entry points (insert,
\* insertSingle, update, delete) is in the derived schema exactly when its flag resolves
\* to true, an omitted flag resolving to true under default-allow and false under
\* default-deny.
C3_GranularMutations ==
    \A i \in 1..Len(heap) : \A t \in Tables :
        LET p == heap[i].from
        IN  /\ p.tables[t].kind = "G"
            /\ t \notin baseConfig.exclude
            /\ baseConfig.mutations # "F"
            => \A op \in MutationOps :
                  [table |-> t, op |-> op] \in heap[i].schema.mutations
                  <=> Resolved(p, FlagOf(p.tables[t], op))

\* a granular policy with an omitted insert flag and delete: false was derived:
\* insert is emitted through the default, delete is filtered out
C3_Witness ==
    \E i \in 1..Len(heap) :
        LET a == heap[i].from.tables["posts"]
        IN  /\ a.kind = "G" /\ a.insert = "U" /\ a.delete = "F"
            /\ [table |-> "posts", op |-> "insertSingle"] \in heap[i].schema.mutations
            /\ [table |-> "posts", op |-> "delete"] \notin heap[i].schema.mutations
            /\ lastCall.ret = i

\* C9: with no eviction requested in between, every withPermissions call made with a
\* policy id returns the schema instance that the first call for that id returned.
C9_SameIdSameInstance ==
    lastCall.op = "withPermissions" => lastCall.ret = firstRet[lastCall.id]

\* a later call for an id, after another id was built in between, got the cached instance
C9_Witness ==
    /\ lastCall.op = "withPermissions" /\ ~lastCall.built /\ ~lastCall.afterEvict
    /\ Len(heap) = 2
    /\ lastCall.ret = 1

\* C10: after the eviction operation was called for a policy id (or for the whole
\* cache), the next withPermissions call for that id builds a new schema instead of
\* returning the previously cached instance.
C10_EvictionRebuilds ==
    lastCall.op = "withPermissions" /\ lastCall.afterEvict => lastCall.built

\* ------------------------------------------------------------------------
\* Properties of the hook pipeline
\* ------------------------------------------------------------------------

\* a request is being served on a table and operation whose hooks are before/after
ServingBA == rq.pc # "idle" /\ opHooksOf(hooks, rq).shape = "ba"

\* the where object of the request's arguments, as a total map
callerWhere == IF rq.args.hasWhere THEN rq.args.where ELSE NoWhere

\* C4: with the hooks withRowSecurity returns for a rule on a table, for every query,
\* querySingle, count, update and delete request on that table the where handed to the
\* default resolver is the caller's where with every key of the rule's where set to the
\* rule's value, and every other key of the caller's where kept.
C4_RowSecurityWhere ==
    \A r \in RuleIds :
        /\ hooks = withRowSecurity("posts" :> r)
        /\ rq.pc # "idle" /\ rq.table = "posts" /\ rq.op \in RlsOps
        /\ rq.pc # "awaitBefore"
        => /\ Len(rq.runs) = 1
           /\ rq.runs[1].args.hasWhere
           /\ \A k \in Keys :
                 rq.runs[1].args.where[k] =
                    IF rule(r, rq.context)[k] # Absent THEN rule(r, rq.context)[k]
                    ELSE callerWhere[k]

\* a count request whose where names another author and a title reached the default
\* resolver with the author replaced by the rule's and the title kept
C4_Witness ==
    /\ hooks = withRowSecurity("posts" :> "own")
    /\ rq.table = "posts" /\ rq.op = "count" /\ rq.context = "u1"
    /\ rq.args.hasWhere /\ rq.args.where = [authorId |-> "u2", title |-> "u2"]
    /\ Len(rq.runs) = 1
    /\ rq.runs[1].args.where = [authorId |-> "u1", title |-> "u2"]

\* C5: within one request on an operation with before/after hooks, the default resolver
\* is started only when every before function has been called and has fulfilled, and an
\* after function is started only when the default resolver has fulfilled.
C5_HooksSequential ==
    ServingBA =>
        /\ rq.runs # <<>> =>
              /\ Len(rq.bst) = Len(opHooksOf(hooks, rq).before)
              /\ \A i \in 1..Len(rq.bst) : rq.bst[i] = "fulfilled"
        /\ rq.ast # <<>> => Len(rq.runs) = 1 /\ rq.runs[1].st = "fulfilled"

\* a request with a consumer's before and after hook ran all three stages
C5_Witness ==
    /\ ServingBA
    /\ opHooksOf(hooks, rq).before = <<UserFn("A")>>
    /\ opHooksOf(hooks, rq).after = <<UserFn("A")>>
    /\ rq.pc = "done" /\ rq.ret = {"db", "A"}
    /\ rq.bst = <<"fulfilled">> /\ rq.ast = <<"fulfilled">>

\* C6: when the operation has a resolve hook, the default resolver runs once per call of
\* defaultResolve by the hook and never otherwise, and each run gets the arguments the
\* hook passed, or the request's original arguments when it passed none (or null).
C6_ResolveHookDefault ==
    rq.pc # "idle" /\ opHooksOf(hooks, rq).shape = "resolve"
    => /\ Len(rq.runs) = Len(rq.calls)
       /\ \A k \in 1..Len(rq.runs) :
             rq.runs[k].args = IF rq.calls[k].kind = "args" THEN rq.calls[k].args
                               ELSE rq.args
       /\ rq.bst = <<>> /\ rq.ast = <<>>

\* a resolve hook called defaultResolve with arguments of its own, then without any
C6_Witness ==
    /\ rq.pc = "done" /\ opHooksOf(hooks, rq).shape = "resolve"
    /\ Len(rq.calls) = 2
    /\ rq.calls[1].kind = "args" /\ rq.calls[2].kind = "undefined"
    /\ rq.runs[1].args # rq.args /\ rq.runs[2].args = rq.args

\* C7: for mergeHooks(A, B) where both have a before hook on the operation, B's before
\* is started only when A's has fulfilled, and it receives the arguments A's before
\* returned (the request's arguments when A's returned none).
C7_ChainedBefore ==
    ServingBA /\ Len(opHooksOf(hooks, rq).before) = 2 /\ Len(rq.bst) = 2
    => /\ rq.bst[1] = "fulfilled"
       /\ rq.bin[2] = IF rq.bout[1].defined /\ rq.bout[1].hasArgs THEN rq.bout[1].args
                       ELSE rq.args

\* A's before returned rewritten arguments and B's before was called with them
C7_Witness ==
    /\ ServingBA
    /\ opHooksOf(hooks, rq).before = <<UserFn("A"), UserFn("B")>>
    /\ Len(rq.bst) = 2
    /\ rq.bout[1].hasArgs /\ rq.bin[2].mark = "A" /\ rq.bin[2] # rq.args

\* C8: for mergeHooks(A, B) and a table and operation on which both define hooks and at
\* least one of the two defines a resolve hook, the merged entry is exactly B's entry.
C8_ResolveLastWins ==
    mergeCall.done =>
        \A x \in HookKeys :
            LET a == mergeCall.configs[1][x]
                b == mergeCall.configs[2][x]
            IN  /\ a.shape # "none" /\ b.shape # "none"
                /\ (a.shape = "resolve" \/ b.shape = "resolve")
                => mergeCall.result[x] = b

\* A's resolve hook met B's before and after hooks, and B's resolve hook met A's
\* before hook
C8_Witness ==
    /\ mergeCall.done
    /\ mergeCall.configs[1] = UserConfig("A", "resolve", "before")
    /\ mergeCall.configs[2] = UserConfig("B", "both", "resolve")
    /\ mergeCall.result = UserConfig("B", "both", "resolve")

\* ------------------------------------------------------------------------
\* Properties of concurrent derivation and of the empty schema
\* ------------------------------------------------------------------------

\* C11: requests in flight together for the same policy id all observe the same schema
\* instance, only one schema instance is ever built for the id, and the cache holds
\* that instance under the id.
C11_ConcurrentFirstRequests ==
    /\ \A r1, r2 \in RequestSlots :
          /\ inflight[r1].st = "served" /\ inflight[r2].st = "served"
          /\ inflight[r1].p.id = inflight[r2].p.id
          => inflight[r1].got = inflight[r2].got
    /\ \A i, j \in 1..Len(heap) : heap[i].from.id = heap[j].from.id => i = j
    /\ \A r \in RequestSlots :
          inflight[r].st = "served" =>
              /\ inflight[r].p.id \in DOMAIN cache
              /\ cache[inflight[r].p.id] = inflight[r].got

\* three requests arrived for the same id before a schema was cached for it, and all
\* were served
C11_Witness ==
    /\ \A r \in RequestSlots :
          inflight[r].st = "served" /\ inflight[r].newId /\ inflight[r].p.id = "a"
    /\ inflight[1].p # inflight[2].p
    /\ Len(heap) = 1

\* C12: when every table is excluded, by the base configuration or by the policy, the
\* derived schema has exactly one query field, the placeholder _empty, no mutation
\* field and no mutation root.
C12_EmptySchemaPlaceholder ==
    \A i \in 1..Len(heap) :
        (\A t \in Tables : t \in baseConfig.exclude \/ Excludes(heap[i].from, t))
        => /\ heap[i].schema.queries = {EmptyEntry}
           /\ heap[i].schema.mutations = {}
           /\ ~heap[i].schema.hasMutationType

\* a default-deny policy without any grant was derived on a base with every table
C12_Witness ==
    \E i \in 1..Len(heap) :
        /\ baseConfig = DefaultConfig
        /\ heap[i].from.mode = "restricted"
        /\ \A t \in Tables : heap[i].from.tables[t] = NoAccess
        /\ heap[i].schema.queries = {EmptyEntry}
        /\ heap[i].schema.types = {}
        /\ lastCall.ret = i /\ lastCall.built

\* ------------------------------------------------------------------------
\* Properties of the generated select types
\* ------------------------------------------------------------------------

selectNodes == {n \in gen.types : n.kind = "select"}

\* the select types the same builder generates when no prune rule is configured
plainNodes ==
    {n \in buildEntities([gen.cfg EXCEPT !.pruneRelations = <<>>]).types : n.kind = "select"}

fieldNames(n) == {f.name : f \in n.fields}

relationsOf(db, t) == {r \in db.relations : r.owner = t}

selfRelationsOf(db, t) == {r \in db.relations : r.owner = t /\ r.target = t}

\* the table a type name (root table, then relation names) stands at after i hops
RECURSIVE tableAt(_, _, _)
tableAt(db, name, i) ==
    IF i = 0 THEN name[1]
    ELSE (CHOOSE r \in db.relations :
            r.owner = tableAt(db, name, i - 1) /\ r.name = name[i + 1]).target

\* the i-th edge of a type name, as <<owning table, relation name>>
edgeAt(db, name, i) == <<tableAt(db, name, i - 1), name[i + 1]>>

hops(n) == Len(n.name) - 1

lastEdge(db, n) == edgeAt(db, n.name, hops(n))

isSelfEdge(db, name, i) == tableAt(db, name, i - 1) = tableAt(db, name, i)

\* how many of the last hops of a type name are consecutive self-relation hops
RECURSIVE selfRun(_, _, _)
selfRun(db, name, i) ==
    IF i = 0 \/ ~isSelfEdge(db, name, i) THEN 0 ELSE 1 + selfRun(db, name, i - 1)

configuredSelfDepth ==
    IF gen.cfg.limitSelfRelationDepth.given
    THEN gen.cfg.limitSelfRelationDepth.n
    ELSE DefaultLimitSelfRelationDepth

\* C13: for every depth limit D and self-relation limit S, no generated type sits at
\* the end of more than S - 1 directly nested self-relation fields; with S = 1 no
\* type has a self-relation field at all
C13_SelfRelationRun ==
    gen.done =>
        /\ \A n \in selectNodes :
              selfRun(gen.cfg.db, n.name, hops(n)) <= configuredSelfDepth - 1
        /\ configuredSelfDepth = 1 =>
              \A n \in selectNodes :
                  \A r \in selfRelationsOf(gen.cfg.db, n.table) : r.name \notin fieldNames(n)

C13_Witness ==
    /\ gen.done
    /\ gen.cfg.db = SelfRefDb
    /\ gen.cfg.limitSelfRelationDepth = [given |-> TRUE, n |-> 3]
    /\ gen.cfg.pruneRelations = <<>>
    /\ \E n \in selectNodes :
          /\ n.name = <<"node", "parentNode", "childNodes">>
          /\ fieldNames(n) = {"tags"}

\* C14: with a finite depth limit D no generated type is more than D relation fields
\* below its root, and a type D fields down has no relation field; with D = 0 no
\* type has a relation field
C14_DepthBound ==
    (gen.done /\ gen.cfg.limitRelationDepth.given) =>
        \A n \in selectNodes :
            /\ hops(n) <= gen.cfg.limitRelationDepth.n
            /\ n.fields # {} => hops(n) < gen.cfg.limitRelationDepth.n

C14_Witness ==
    /\ gen.done
    /\ gen.cfg.db = ParentChildDb
    /\ gen.cfg.limitRelationDepth = [given |-> TRUE, n |-> 2]
    /\ gen.cfg.pruneRelations = <<>>
    /\ \E n \in selectNodes :
          /\ n.name = <<"parent", "children", "parent">>
          /\ n.fields = {}

\* C15: a type reached over a relation to a different table starts a new run of
\* self-relations: when it expands it has each of its table's self-relation fields
\* exactly when S >= 2, however many self-relation hops came before the crossing,
\* and it is no more than D fields below its root
C15_SelfRunResets ==
    gen.done =>
        \A n \in selectNodes :
            (/\ hops(n) >= 1
             /\ ~isSelfEdge(gen.cfg.db, n.name, hops(n))
             /\ lastEdge(gen.cfg.db, n) \notin DOMAIN gen.cfg.pruneRelations
             /\ n.fields # {})
            => /\ \A r \in selfRelationsOf(gen.cfg.db, n.table) :
                     <<n.table, r.name>> \notin DOMAIN gen.cfg.pruneRelations
                     => (r.name \in fieldNames(n) <=> configuredSelfDepth >= 2)
               /\ gen.cfg.limitRelationDepth.given => hops(n) < gen.cfg.limitRelationDepth.n

C15_Witness ==
    /\ gen.done
    /\ gen.cfg.db = SelfRefDb
    /\ gen.cfg.limitSelfRelationDepth = [given |-> TRUE, n |-> 2]
    /\ gen.cfg.limitRelationDepth = [given |-> TRUE, n |-> 4]
    /\ gen.cfg.pruneRelations = <<>>
    /\ \E n \in selectNodes :
          /\ n.name = <<"node", "parentNode", "tags", "node">>
          /\ fieldNames(n) = {"parentNode", "childNodes", "tags"}

\* a type name goes over the edge e somewhere
crosses(db, name, e) == \E i \in 1..(Len(name) - 1) : edgeAt(db, name, i) = e

\* C16: with an omit rule on (T, R) no generated output type of T has the field R,
\* at the root or nested, and every other field of every type is generated as
\* without the rule
C16_OmitRule ==
    gen.done =>
        \A e \in DOMAIN gen.cfg.pruneRelations :
            gen.cfg.pruneRelations[e].kind = "omit" =>
                LET pruned == selectNodes
                    plain == plainNodes
                IN  /\ \A n \in pruned : n.table = e[1] => e[2] \notin fieldNames(n)
                    /\ \A n \in pruned : \E m \in plain :
                          /\ m.name = n.name
                          /\ n.fields = {f \in m.fields : ~(n.table = e[1] /\ f.name = e[2])}
                    /\ \A m \in plain :
                          ~crosses(gen.cfg.db, m.name, e) => \E n \in pruned : n.name = m.name

C16_Witness ==
    /\ gen.done
    /\ gen.cfg.db = SelfRefDb
    /\ gen.cfg.limitRelationDepth = [given |-> TRUE, n |-> 4]
    /\ gen.cfg.limitSelfRelationDepth = [given |-> TRUE, n |-> 2]
    /\ gen.cfg.pruneRelations = (<<"node", "tags">> :> [kind |-> "omit", only |-> {}])
    /\ \E n \in selectNodes : n.name = <<"node">> /\ fieldNames(n) = {"parentNode", "childNodes"}
    /\ \E n \in selectNodes : n.name = <<"tag", "node">> /\ fieldNames(n) = {"parentNode", "childNodes"}
    /\ \E n \in selectNodes : n.name = <<"tag">> /\ fieldNames(n) = {"node"}
    /\ \E m \in plainNodes : m.name = <<"node">> /\ "tags" \in fieldNames(m)

\* C17: a leaf or only rule on (T, R) restricts just the type generated at that edge
\* (no relation field under leaf, the listed ones under only); every other type,
\* the ones below a listed relation and the same target reached over another edge
\* included, has the fields it has without the rule
C17_LeafOnlyRule ==
    gen.done =>
        \A e \in DOMAIN gen.cfg.pruneRelations :
            gen.cfg.pruneRelations[e].kind \in {"leaf", "only"} =>
                LET pruned == selectNodes
                    plain == plainNodes
                IN  \A n \in pruned : \E m \in plain :
                        /\ m.name = n.name
                        /\ n.fields =
                              IF hops(n) >= 1 /\ lastEdge(gen.cfg.db, n) = e
                              THEN (IF gen.cfg.pruneRelations[e].kind = "leaf" THEN {}
                                    ELSE {f \in m.fields : f.name \in gen.cfg.pruneRelations[e].only})
                              ELSE m.fields

C17_Witness ==
    /\ gen.done
    /\ gen.cfg.db = SelfRefDb
    /\ gen.cfg.limitRelationDepth = [given |-> TRUE, n |-> 4]
    /\ gen.cfg.limitSelfRelationDepth = [given |-> TRUE, n |-> 2]
    /\ gen.cfg.pruneRelations = (<<"tag", "node">> :> [kind |-> "only", only |-> {"parentNode"}])
    /\ \E n \in selectNodes : n.name = <<"tag", "node">> /\ fieldNames(n) = {"parentNode"}
    /\ \E n \in selectNodes : n.name = <<"tag", "node", "parentNode">> /\ fieldNames(n) = {"tags"}
    /\ \E n \in selectNodes : n.name = <<"node">> /\ fieldNames(n) = {"parentNode", "childNodes", "tags"}

\* the table of a type is already on the path that leads to it
onPath(db, n) == \E i \in 0..(hops(n) - 1) : tableAt(db, n.name, i) = n.table

\* C18: with limitRelationDepth configured as undefined there is no depth limit:
\* a type without relation fields, whose table has relations, is at a table that is
\* already on its path
C18_UndefinedMeansNoLimit ==
    (gen.done /\ ~gen.cfg.limitRelationDepth.given /\ gen.cfg.pruneRelations = <<>>) =>
        \A n \in selectNodes :
            (n.fields = {} /\ \E r \in relationsOf(gen.cfg.db, n.table) :
                                 r.owner # r.target \/ configuredSelfDepth >= 2)
            => onPath(gen.cfg.db, n)

\* ------------------------------------------------------------------------
\* Properties of filter extraction
\* ------------------------------------------------------------------------

\* the filter object has a non-empty OR and some other key too
orWithOtherKey(obj) == obj.hasOR /\ Len(obj.OR) > 0 /\ Len(obj.entries) > 0

\* the filter object has a non-empty OR and some other key whose value is not null
orWithNonNullKey(obj) ==
    obj.hasOR /\ Len(obj.OR) > 0 /\ \E i \in DOMAIN obj.entries : obj.entries[i].value.t # "null"

conflictOf(level) == IF level = "column" THEN ConflictingColumnOr ELSE ConflictingTableOr

rejectedAsConflict == compiled.result = Thrown(conflictOf(compiled.level))

\* C19 as stated: a filter object with a non-empty OR and any other key at the same
\* level, column operators or table filters alike, is rejected with the
\* conflicting-filter error and yields no condition
C19_OrWithAnyKeyRejected ==
    (compiled.done /\ orWithOtherKey(compiled.input)) => rejectedAsConflict

\* C19, amended: a non-empty OR with any other operator key is rejected at the
\* column-operator level; at the table level it is rejected when another key has a
\* value other than null (keys whose value is null are dropped before the check)
C19_OrWithKeyRejected ==
    /\ (compiled.done /\ compiled.level = "column" /\ orWithOtherKey(compiled.input))
          => rejectedAsConflict
    /\ (compiled.done /\ compiled.level = "table" /\ orWithNonNullKey(compiled.input))
          => rejectedAsConflict

C19_Witness ==
    /\ compiled.done
    /\ compiled.level = "table"
    /\ compiled.input = Obj(<<ObjEntry("views", ViewsEq1)>>, TRUE, <<Obj(<<ObjEntry("views", ViewsEq1)>>, FALSE, <<>>)>>)
    /\ compiled.result.status = "error"
    /\ compiled.result.error = ConflictingTableOr
    /\ compiled.result.sql = <<>>

\* the values a row can hold in the column: SQL NULL or a value of the column's type
RowValues(column) ==
    IF column.dataType = "bigint"
    THEN {JsNull, JsBigInt(1), JsBigInt(2)}
    ELSE {JsNull, JsFalse, JsTrue}

truth(b) == IF b THEN "T" ELSE "F"

\* SQL's value (true, false or unknown) of a condition on the column for a row holding x
RECURSIVE holds(_, _)
holds(c, x) ==
    IF c.k = "and"
    THEN (IF \E i \in DOMAIN c.kids : holds(c.kids[i], x) = "F" THEN "F"
          ELSE IF \E i \in DOMAIN c.kids : holds(c.kids[i], x) = "U" THEN "U" ELSE "T")
    ELSE IF c.k = "or"
    THEN (IF \E i \in DOMAIN c.kids : holds(c.kids[i], x) = "T" THEN "T"
          ELSE IF \E i \in DOMAIN c.kids : holds(c.kids[i], x) = "U" THEN "U" ELSE "F")
    ELSE IF c.op = "isNull" THEN truth(x.t = "null")
    ELSE IF c.op = "isNotNull" THEN truth(x.t # "null")
    ELSE IF x.t = "null" THEN "U"
    ELSE IF c.op \in {"eq", "like", "ilike"} THEN truth(x.v = c.val.v)
    ELSE IF c.op \in {"ne", "notLike", "notIlike"} THEN truth(x.v # c.val.v)
    ELSE IF c.op = "gt" THEN truth(x.v > c.val.v)
    ELSE IF c.op = "gte" THEN truth(x.v >= c.val.v)
    ELSE IF c.op = "lt" THEN truth(x.v < c.val.v)
    ELSE IF c.op = "lte" THEN truth(x.v <= c.val.v)
    ELSE IF c.op = "inArray" THEN truth(\E i \in DOMAIN c.val.items : c.val.items[i].v = x.v)
    ELSE truth(\A i \in DOMAIN c.val.items : c.val.items[i].v # x.v)

\* the row is selected by what the extraction returned (no condition selects every row)
selected(result, x) == result.status = "undefined" \/ holds(result.sql[1], x) = "T"

\* a row holding x satisfies one operator key of a filter; a key given as null, or a
\* null check given as false, asks for nothing
satisfiesKey(e, x) ==
    IF e.value.t = "null" THEN TRUE
    ELSE IF e.key = "isNull" THEN (e.value = JsTrue => x.t = "null")
    ELSE IF e.key = "isNotNull" THEN (e.value = JsTrue => x.t # "null")
    ELSE IF x.t = "null" THEN FALSE
    ELSE IF e.key = "eq" THEN x.v = e.value.v
    ELSE IF e.key = "ne" THEN x.v # e.value.v
    ELSE IF e.key = "gt" THEN x.v > e.value.v
    ELSE IF e.key = "gte" THEN x.v >= e.value.v
    ELSE IF e.key = "lt" THEN x.v < e.value.v
    ELSE IF e.key = "lte" THEN x.v <= e.value.v
    ELSE IF e.key = "inArray" THEN \E i \in DOMAIN e.value.items : e.value.items[i].v = x.v
    ELSE \A i \in DOMAIN e.value.items : e.value.items[i].v # x.v

\* a row holding x satisfies a column filter: every operator key, or one of the OR variants
RECURSIVE satisfies(_, _)
satisfies(f, x) ==
    IF f.hasOR /\ Len(f.OR) > 0
    THEN \E i \in DOMAIN f.OR : satisfies(f.OR[i], x)
    ELSE \A i \in DOMAIN f.entries : satisfiesKey(f.entries[i], x)

\* C20: the condition extracted from a column filter selects exactly the rows that
\* satisfy every one of its operator keys, and the one extracted from {OR: [f1..fn]}
\* exactly the rows that satisfy some fi: {OR: [{eq: v1}, {eq: v2}]} selects the rows
\* with C = v1 or C = v2
C20_ConditionMatchesFilter ==
    (compiled.done /\ compiled.level = "column" /\ compiled.result.status # "error")
        => \A x \in RowValues(compiled.column) :
              selected(compiled.result, x) <=> satisfies(compiled.input, x)

\* the type was generated at an edge that closes a cross-table cycle: its table is
\* on the path before the edge, and the edge comes from a different table
closesCrossCycle(db, n) ==
    /\ hops(n) >= 1
    /\ ~isSelfEdge(db, n.name, hops(n))
    /\ \E i \in 0..(hops(n) - 2) : tableAt(db, n.name, i) = n.table

\* C29: with a finite depth limit, the type generated for a target that closes a
\* cross-table cycle has at most one further level of relation fields: the types of
\* its relation fields have no relation fields
C29_CrossCycleOneLevel ==
    (gen.done /\ gen.cfg.limitRelationDepth.given) =>
        LET nodes == selectNodes
        IN  \A n \in nodes :
                closesCrossCycle(gen.cfg.db, n) =>
                    \A m \in nodes :
                        (Len(m.name) = Len(n.name) + 1 /\ SubSeq(m.name, 1, Len(n.name)) = n.name)
                        => m.fields = {}

C29_Witness ==
    /\ gen.done
    /\ gen.cfg.db = ParentChildDb
    /\ gen.cfg.limitRelationDepth = [given |-> TRUE, n |-> 4]
    /\ gen.cfg.pruneRelations = <<>>
    /\ \E n \in selectNodes : n.name = <<"parent", "children", "parent">> /\ fieldNames(n) = {"children"}
    /\ \E m \in selectNodes : m.name = <<"parent", "children", "parent", "children">> /\ m.fields = {}

\* C30: during one build the output type for a (table, synthesized type name) pair is
\* constructed at most once: no two constructed types have the same table and name
C30_TypeNodeOnce ==
    gen.done =>
        LET nodes == selectNodes
        IN  \A n, m \in nodes :
                (n.table = m.table /\ objectTypeName(n.name) = objectTypeName(m.name)) => n = m

\* ------------------------------------------------------------------------
\* Derived schemas against the base configuration
\* ------------------------------------------------------------------------

\* the entry points of the schema build() makes of the base configuration
baseEntryPoints == buildEntities(baseConfig).queries \cup buildEntities(baseConfig).mutations

\* C23: for every base configuration and every policy, the entry points of the schema
\* withPermissions returns (the placeholder of an empty schema aside) are entry points
\* of the base schema: no operation the base configuration disabled for a table, and
\* no operation of a table it excluded, is exposed
C23_DerivedWithinBase ==
    LET base == baseEntryPoints
    IN  \A i \in 1..Len(heap) :
            (heap[i].schema.queries \cup heap[i].schema.mutations) \ {EmptyEntry} \subseteq base

\* ------------------------------------------------------------------------
\* The schema a call returns against the policy of that call
\* ------------------------------------------------------------------------

\* C25: whatever calls were made before, an earlier call under the same id with
\* different rules included, the schema a call withPermissions(P) returns is the one
\* P's own mode and rules derive from the base configuration
C25_ReturnedConformsToPolicy ==
    [][\A p \in CachePolicies :
          WithPermissions(p) => heap'[lastCall'.ret].schema = deriveSchema(baseConfig, p)]_vars

\* ------------------------------------------------------------------------
\* A before hook that fails
\* ------------------------------------------------------------------------

beforeRejected == \E i \in 1..Len(rq.bst) : rq.bst[i] = "rejected"

\* C26: once a before hook of a request has thrown or rejected, the default resolver
\* (and with it the storage adapter) is never invoked for that request, no further
\* hook is called, and the request ends with the error
C26_BeforeFailureStopsRequest ==
    beforeRejected =>
        /\ rq.runs = <<>>
        /\ rq.calls = <<>>
        /\ rq.ast = <<>>
        /\ rq.bst[Len(rq.bst)] = "rejected"
        /\ rq.pc \in {"awaitBefore", "failed"}
        /\ rq.ret = {}

\* the second before function of a merged chain rejected and the request has failed
\* without a call of the default resolver
C26_Witness ==
    /\ rq.pc = "failed"
    /\ Len(rq.bst) = 2
    /\ rq.bst[2] = "rejected"
    /\ rq.runs = <<>>

\* ------------------------------------------------------------------------
\* The side-channel data of merged hooks
\* ------------------------------------------------------------------------

\* the data a before function returned, "" when it returned none
dataOf(beforeResult) ==
    IF beforeResult.defined /\ beforeResult.hasData THEN beforeResult.data ELSE ""

\* C28: under mergeHooks(A, B) with a before and an after hook from both sources on
\* the operation, the beforeData an after hook is called with is the data the before
\* hook of the same source returned for the request
C28_AfterGetsOwnBeforeData ==
    LET opHooks == opHooksOf(hooks, rq)
    IN  (rq.pc # "idle" /\ Len(opHooks.before) = 2 /\ Len(opHooks.after) = 2) =>
            \A i \in 1..Len(rq.ain) : \A j \in 1..Len(rq.bout) :
                (opHooks.after[i] = opHooks.before[j] /\ rq.bst[j] = "fulfilled") =>
                    rq.ain[i].beforeData = dataOf(rq.bout[j])

\* ------------------------------------------------------------------------
\* Comparison operators with the operand false
\* ------------------------------------------------------------------------

\* C27: a comparison operator given with the operand false in a column filter (eq: false
\* on a boolean column) is compiled: the extraction returns a condition, and every row
\* the condition selects satisfies the comparison
C27_FalseOperandCompiled ==
    (compiled.done /\ compiled.level = "column" /\ ~compiled.input.hasOR
        /\ compiled.result.status # "error")
        => \A i \in DOMAIN compiled.input.entries :
              LET e == compiled.input.entries[i]
              IN  (e.key \in comparisonOps /\ e.value = JsFalse) =>
                      /\ compiled.result.status = "sql"
                      /\ \A x \in RowValues(compiled.column) :
                            selected(compiled.result, x) => satisfiesKey(e, x)

\* ------------------------------------------------------------------------
\* Filters on a relation whose key pairs cannot be resolved
\* ------------------------------------------------------------------------

\* the key names a relation of the table for which the ORM gives no key pairs
unresolved(tableName, key) ==
    \E r \in FilterDb.relations :
        /\ r.owner = tableName
        /\ r.name = key
        /\ normalizeRelation(r).threw \/ normalizeRelation(r).fields = 0
                                       \/ normalizeRelation(r).references = 0

relationOf(tableName, key) ==
    CHOOSE r \in FilterDb.relations : r.owner = tableName /\ r.name = key

\* the filter object without the keys that name a relation whose key pairs cannot be
\* resolved, at every level: its own keys, its OR variants, and the filters nested
\* under its other relation keys
RECURSIVE withoutUnresolved(_, _)
withoutUnresolved(tableName, f) ==
    LET kept == SelectSeq(f.entries, LAMBDA e : ~unresolved(tableName, e.key))
        inner(e) ==
            IF e.value.t # "object" \/ isColumn(tableName, e.key) THEN e
            ELSE IF relationOf(tableName, e.key).one
            THEN ObjEntry(e.key, withoutUnresolved(relationOf(tableName, e.key).target, e.sub[1]))
            ELSE ObjEntry(e.key,
                    Obj([i \in DOMAIN e.sub[1].entries |->
                            ObjEntry(e.sub[1].entries[i].key,
                                     withoutUnresolved(relationOf(tableName, e.key).target,
                                                       e.sub[1].entries[i].sub[1]))],
                        FALSE, <<>>))
    IN  Obj([i \in DOMAIN kept |-> inner(kept[i])], f.hasOR,
            [i \in DOMAIN f.OR |-> withoutUnresolved(tableName, f.OR[i])])

\* the filter has, at some level, a key that names a relation without key pairs
hasUnresolved(tableName, f) == withoutUnresolved(tableName, f) # f

asApiError(e) ==
    IF e.t = "object" /\ e.msgType = "string"
    THEN [t |-> "object", cls |-> "GraphQLError", msgType |-> "string", msg |-> e.msg, v |-> ""]
    ELSE e

finished == exec.pc \in {"done", "failed"}

\* C21 as stated: in every operation path, whatever a storage call threw reaches the
\* caller: as the API-level error with the same message when the thrown value has a
\* string message, unchanged otherwise
C21_AdapterErrorSurfaced ==
    finished =>
        \A i \in DOMAIN exec.thrown :
            exec.outcome = [kind |-> "error", err |-> asApiError(exec.thrown[i].value)]

\* C21, amended: what the awaited storage call of any of the seven paths threw reaches
\* the caller in that way; what the fast-path count primitive threw is dropped, the
\* manual count query runs instead, and the caller gets the count when that succeeds
C21_StorageErrorSurfaced ==
    finished =>
        \A i \in DOMAIN exec.thrown :
            IF exec.thrown[i].by = "storage"
            THEN exec.outcome = [kind |-> "error", err |-> asApiError(exec.thrown[i].value)]
            ELSE /\ exec.op = "count"
                 /\ i = 1
                 /\ Len(exec.thrown) = 1 => exec.outcome.kind = "value"

\* an update failed with the API-level error carrying the message of the error that
\* adapter.executeUpdate threw
C21_Witness ==
    /\ exec.pc = "failed"
    /\ exec.op = "update"
    /\ exec.thrown = <<[by |-> "storage", value |-> ErrorObject("duplicate key")]>>
    /\ exec.outcome = [kind |-> "error", err |-> GraphQLError("duplicate key")]

\* ------------------------------------------------------------------------
\* Row security and nested relation fields
\* ------------------------------------------------------------------------

\* the rows a table may hold
Rows == [Keys -> Values]

\* the row passes the where object
matches(row, where) == \A k \in Keys : where[k] # Absent => row[k] = where[k]

\* the rules installed on the table: those whose before closure is on its query operation
rulesOn(tableName) ==
    IF tableName \notin HookTables THEN {}
    ELSE {r \in RuleIds :
            \E i \in DOMAIN hooks[<<tableName, "query">>].before :
                hooks[<<tableName, "query">>].before[i] = RuleFn(r)}

\* the rows of each table a relational query reads: those of the queried table that
\* pass args.where, and for every entry of `with` those of its table that pass its where
levelsOf(run) ==
    <<[table |-> rq.table, hasWhere |-> run.args.hasWhere, where |-> run.args.where]>>
    \o [i \in DOMAIN run.with |->
            [table |-> run.with[i].table, hasWhere |-> run.with[i].hasWhere,
             where |-> run.with[i].where]]

returnedRows(level) == {row \in Rows : level.hasWhere => matches(row, level.where)}

\* C24: every row a query or querySingle request returns from a table that has a
\* row-security rule satisfies the rule for the caller's context, on the queried table
\* as well as on a table reached through a relation field nested in the query
C24_NestedRowsSatisfyRule ==
    (rq.pc # "idle" /\ rq.op \in {"query", "querySingle"}) =>
        \A k \in DOMAIN rq.runs :
            LET levels == levelsOf(rq.runs[k])
            IN  \A i \in DOMAIN levels : \A r \in rulesOn(levels[i].table) :
                    \A row \in returnedRows(levels[i]) : matches(row, rule(r, rq.context))

====
